---- MODULE Spec2Model ----
(***************************************************************************)
(* A model of the task interpreter of temporal-dsl:                        *)
(*   - the sequence executor of a `do` list (DoTaskBuilder.iterateTasks),  *)
(*   - the fork task body (ForkTaskBuilder.exec),                          *)
(*   - the listen task body (ListenTaskBuilder.Build / await),             *)
(*   - the switch task (SwitchTaskBuilder.Build),                          *)
(*   - schedule reconciliation (UpsertSchedule),                           *)
(*   - document validation (Workflow.Validate),                            *)
(*   - search-attribute coercion (SearchAttribute.setAttribute),           *)
(*   - the call-http activity (callHTTPActivity),                          *)
(*   - the copy of the workflow state (State.Clone),                       *)
(*   - the listen reply (ListenTaskBuilder.processReply),                  *)
(*   - the registration of fork branches (ForkTaskBuilder.Build),          *)
(*   - the search attributes of a task (ParseSearchAttributes),            *)
(*   - the body of a call-http task (CallHTTPTaskBuilder.Build),           *)
(*   - runtime expressions and the set task's sideEffectWrapper.           *)
(* Each part has its own specifications (SpecDo, SpecFork, SpecListen,     *)
(* SpecSwitch, SpecSchedule, SpecValidate, SpecSearch, SpecHttp,           *)
(* SpecClone, SpecReply, SpecBuild, SpecParse, SpecCall, SpecEval and      *)
(* their variants); the variables of the other parts stay at their         *)
(* initial values.                                                         *)
(***************************************************************************)
EXTENDS Integers, Sequences, FiniteSets, TLC

\* ------------------------------------------------------------------------
\* Bounds
\* ------------------------------------------------------------------------
\* number of tasks of the document, the lists of nested `do` tasks included
MaxTasks == 3

\* number of branches of a fork
MaxBranches == 3

\* number of entries of a listen task
MaxEvents == 2

\* number of events one query or update handler handles
MaxReceived == 2

\* number of entries of a switch
MaxCases == 3

\* number of runs of UpsertSchedule
MaxReconcilers == 2

\* the tasks of a document given to Validate, nested ones included
MaxNodes == 3

\* the answers of the server to one call and the redirects it follows
MaxHops == 2

\* the invocations of one reply handler
MaxReplies == 2

\* the entries of metadata.searchAttributes of one task
MaxAttributes == 2

\* the strings of an object a body evaluates
MaxStrings == 2

\* ------------------------------------------------------------------------
\* Values
\* ------------------------------------------------------------------------
\* an error value: its kind, whether it is a non-retryable application
\* error, and the task key it names (0 when it names none)
Err(type, nonRetryable, detail) ==
  [type |-> type, nonRetryable |-> nonRetryable, detail |-> detail]

NoErr == Err("none", FALSE, 0)

\* the errors a task body may return
BodyErrors == {Err("body", FALSE, 1), Err("body", TRUE, 2)}

\* what a leaf task body may return as its output (nil or a value)
LeafResults == {"nil", "r1"}

\* a nested do returns state.Output itself
OutputRef == "outputRef"

\* export.as as the executor reads it (exportAs.String()); <<>> is "no export"
NoExport == <<>>

ExportDecls ==
  {NoExport, <<"{", "u", "}">>, <<"$", "{", "v", "}">>}

\* the flow directive enum of the DSL
FlowDirectives == {"continue", "exit", "end"}

\* `then`: nil, one of the enum values, or the key of a task.  Task keys of
\* a list are its positions 1..len; a key above len names no task.
NoThen == [set |-> FALSE, dir |-> "", target |-> 0]

ThenValues ==
  {NoThen}
    \cup {[set |-> TRUE, dir |-> d, target |-> 0] : d \in FlowDirectives}
    \cup {[set |-> TRUE, dir |-> "", target |-> k] : k \in 1..(MaxTasks + 1)}

IsTermination(then) == then.dir \in {"exit", "end"}

IsEnum(then) == then.dir \in FlowDirectives

\* results of evaluating the `if` expression
EvalResults ==
  {[kind |-> "bool", s |-> "true"], [kind |-> "bool", s |-> "false"],
   [kind |-> "string", s |-> "TRUE"], [kind |-> "string", s |-> "True"],
   [kind |-> "string", s |-> "1"], [kind |-> "string", s |-> "0"],
   [kind |-> "string", s |-> "yes"],
   [kind |-> "other", s |-> ""], [kind |-> "error", s |-> ""]}

VARIABLES
  \* --- do executor ---
  family,     \* which document family the execution draws its tasks from
  stack,      \* one frame per running iterateTasks, innermost last
  state,      \* utils.State: data and output (env and input are not written)
  dlog,       \* history: the steps the executor performed, in order
  dret,       \* what the root workflow function returned
  declared,   \* number of tasks in the task lists entered so far
  lastPost,   \* history: the latest export step
  \* --- fork ---
  fpc,        \* where the fork's workflow function is: idle, await, done
  isCompeting,
  goDerived,  \* whether workflow.Go hands its coroutine a derived context
  futures,    \* per branch, how its child workflow future has resolved
  coroutine,  \* per branch, whether its reply coroutine still waits
  hasReplied,
  i,          \* the index shared by the reply coroutines
  replyErr,
  winningCtx,
  cancelled,  \* the branches whose cancel handle has been invoked
  fret,       \* what the fork returned
  \* --- listen ---
  lpc,        \* where the listen's workflow function is: idle, await, done
  mode,       \* the consumption strategy declared: all, any, one
  events,     \* the with.type of each declared entry, in order
  areAllComplete,
  areAnyComplete,
  awaitAny,   \* await's own copy of areAnyComplete
  received,   \* history: per entry, the events its handler has handled
  ldata,      \* the keys the handlers have written to state.data
  lret,       \* what the listen returned
  \* --- switch ---
  spc,        \* where the switch is: idle, run, child, done
  cases,      \* per entry, what its `when` is or evaluates to
  sidx,       \* the entry the workflow function is at
  evaluated,  \* history: the entries whose `when` has been evaluated
  selected,   \* history: the entry that was to run, 0 when none
  children,   \* history: the child workflows executed
  sret,       \* what the switch returned
  \* --- schedule reconciliation ---
  upc,        \* setup until the document and the engine are chosen, then run
  sdoc,       \* the document: its schedule and its schedule metadata
  engine,     \* the schedules the engine holds
  recon,      \* per run of UpsertSchedule, where it is and what it returned
  \* --- document validation ---
  vpc,        \* idle until a document is parsed, then parsed, then done
  vdoc,       \* the parsed document: its root task list
  vret,       \* what Validate returned
  \* --- search-attribute coercion ---
  apc,        \* idle until an entry is decoded, then decoded, then done
  attr,       \* the entry: its type and its value
  aret,       \* what setAttribute did with it
  \* --- call http activity ---
  hpc,        \* idle until a call is set up, then called, then done
  call,       \* the call: its arguments and what the server answers
  hret,       \* what callHTTPActivity returned
  \* --- State.Clone ---
  kpc,        \* idle until a state is built, then built, then cloned
  orig,       \* the state S
  cloned,     \* S.Clone()
  \* --- listen reply ---
  ypc,        \* idle until an event with its template exists, then ready
  heap,       \* the objects in memory: maps and lists, by address
  additional, \* the address of the event's `additional` map
  template,   \* history: `additional` as it was declared
  replies,    \* history: per invocation, state.data.x and the reply
  \* --- fork build ---
  gpc,         \* idle, then built: the fork was built and runs
  branchTasks, \* the task of each branch of the fork, in declaration order
  forkedTasks, \* the child workflow name kept for each branch
  registered,  \* the workflow names registered with the worker
  dispatched,  \* the names executed as child workflows, in order
  \* --- search attributes of a task ---
  mpc,              \* idle, decoded, done
  searchAttributes, \* the decoded entries of metadata.searchAttributes
  upserted,         \* the calls of UpsertTypedSearchAttributes: the keys of each
  mret,             \* what ParseSearchAttributes did: returned or panicked
  \* --- call http task body ---
  cpc,      \* idle, waiting for the activity, resolved, done
  taskKey,  \* the name of the task
  cstate,   \* the state handed to the body
  cbefore,  \* history: state.data when the body began
  activity, \* how the activity future resolved
  cret,     \* what the body returned
  \* --- runtime expressions of a workflow body ---
  epc,       \* idle, ran (first execution), replayed
  esite,     \* the body that evaluates: a set task, a query or update handler
  setObject, \* the strings of the object evaluated, in the order visited
  recorded,  \* the values the side effects of the first execution recorded
  evals,     \* history: each expression evaluated in the first execution
  eret,      \* what the evaluation returned on first execution
  rret       \* what it returned on replay

doVars == <<family, stack, state, dlog, dret, declared, lastPost>>

forkVars == <<fpc, isCompeting, goDerived, futures, coroutine, hasReplied, i,
              replyErr, winningCtx, cancelled, fret>>

listenVars == <<lpc, mode, events, areAllComplete, areAnyComplete, awaitAny,
                received, ldata, lret>>

switchVars == <<spc, cases, sidx, evaluated, selected, children, sret>>

scheduleVars == <<upc, sdoc, engine, recon>>

validateVars == <<vpc, vdoc, vret>>

searchVars == <<apc, attr, aret>>

httpVars == <<hpc, call, hret>>

cloneVars == <<kpc, orig, cloned>>

replyVars == <<ypc, heap, additional, template, replies>>

buildVars == <<gpc, branchTasks, forkedTasks, registered, dispatched>>

parseVars == <<mpc, searchAttributes, upserted, mret>>

callVars == <<cpc, taskKey, cstate, cbefore, activity, cret>>

evalVars == <<epc, esite, setObject, recorded, evals, eret, rret>>

vars ==
  <<doVars, forkVars, listenVars, switchVars, scheduleVars, validateVars,
    searchVars, httpVars, cloneVars, replyVars, buildVars, parseVars,
    callVars, evalVars>>

\* what the steps of one part leave alone: the variables of the other parts
exceptDo ==
  <<forkVars, listenVars, switchVars, scheduleVars, validateVars,
    searchVars, httpVars, cloneVars, replyVars, buildVars, parseVars,
    callVars, evalVars>>

exceptFork ==
  <<doVars, listenVars, switchVars, scheduleVars, validateVars, searchVars,
    httpVars, cloneVars, replyVars, buildVars, parseVars, callVars,
    evalVars>>

exceptListen ==
  <<doVars, forkVars, switchVars, scheduleVars, validateVars, searchVars,
    httpVars, cloneVars, replyVars, buildVars, parseVars, callVars,
    evalVars>>

exceptSwitch ==
  <<doVars, forkVars, listenVars, scheduleVars, validateVars, searchVars,
    httpVars, cloneVars, replyVars, buildVars, parseVars, callVars,
    evalVars>>

exceptSchedule ==
  <<doVars, forkVars, listenVars, switchVars, validateVars, searchVars,
    httpVars, cloneVars, replyVars, buildVars, parseVars, callVars,
    evalVars>>

exceptValidate ==
  <<doVars, forkVars, listenVars, switchVars, scheduleVars, searchVars,
    httpVars, cloneVars, replyVars, buildVars, parseVars, callVars,
    evalVars>>

exceptSearch ==
  <<doVars, forkVars, listenVars, switchVars, scheduleVars, validateVars,
    httpVars, cloneVars, replyVars, buildVars, parseVars, callVars,
    evalVars>>

exceptHttp ==
  <<doVars, forkVars, listenVars, switchVars, scheduleVars, validateVars,
    searchVars, cloneVars, replyVars, buildVars, parseVars, callVars,
    evalVars>>

exceptClone ==
  <<doVars, forkVars, listenVars, switchVars, scheduleVars, validateVars,
    searchVars, httpVars, replyVars, buildVars, parseVars, callVars,
    evalVars>>

exceptReply ==
  <<doVars, forkVars, listenVars, switchVars, scheduleVars, validateVars,
    searchVars, httpVars, cloneVars, buildVars, parseVars, callVars,
    evalVars>>

exceptBuild ==
  <<doVars, forkVars, listenVars, switchVars, scheduleVars, validateVars,
    searchVars, httpVars, cloneVars, replyVars, parseVars, callVars,
    evalVars>>

exceptParse ==
  <<doVars, forkVars, listenVars, switchVars, scheduleVars, validateVars,
    searchVars, httpVars, cloneVars, replyVars, buildVars, callVars,
    evalVars>>

exceptCall ==
  <<doVars, forkVars, listenVars, switchVars, scheduleVars, validateVars,
    searchVars, httpVars, cloneVars, replyVars, buildVars, parseVars,
    evalVars>>

exceptEval ==
  <<doVars, forkVars, listenVars, switchVars, scheduleVars, validateVars,
    searchVars, httpVars, cloneVars, replyVars, buildVars, parseVars,
    callVars>>

\* ------------------------------------------------------------------------
\* utils.State
\* ------------------------------------------------------------------------
NewState == [data |-> <<>>, output |-> <<>>]

\* maps.Copy(s.Data, data) for a one-entry map
AddData(s, key, value) == [s EXCEPT !.data = (key :> value) @@ s.data]

\* strings.Trim(s, "{}"): strip leading and trailing braces
RECURSIVE TrimLeft(_)
TrimLeft(s) ==
  IF s # <<>> /\ Head(s) \in {"{", "}"} THEN TrimLeft(Tail(s)) ELSE s

RECURSIVE TrimRight(_)
TrimRight(s) ==
  IF s # <<>> /\ s[Len(s)] \in {"{", "}"}
  THEN TrimRight(SubSeq(s, 1, Len(s) - 1))
  ELSE s

Trim(s) == TrimRight(TrimLeft(s))

AddOutput_noNilGuard(s, export, output) ==
  IF export # NoExport
  THEN [s EXCEPT !.output = (Trim(export) :> output) @@ s.output]
  ELSE s

AddOutput(s, export, output) ==
  IF output # "nil" /\ export # NoExport
  THEN [s EXCEPT !.output = (Trim(export) :> output) @@ s.output]
  ELSE s

\* reading a Go map: a missing key reads as nil
Lookup(m, k) == IF k \in DOMAIN m THEN m[k] ELSE "nil"

\* ------------------------------------------------------------------------
\* builder.ShouldRun and the other per-task checks
\* ------------------------------------------------------------------------
EqualFoldTRUE(s) == s \in {"TRUE", "True", "true"}

ShouldRun(hasIf, res) ==
  IF ~hasIf THEN [run |-> TRUE, err |-> NoErr]
  ELSE IF res.kind = "error"
    THEN [run |-> FALSE, err |-> Err("ifParse", TRUE, 0)]
  ELSE IF res.kind = "bool"
    THEN [run |-> (res.s = "true"), err |-> NoErr]
  ELSE IF res.kind = "string"
    THEN [run |-> (EqualFoldTRUE(res.s) \/ res.s = "1"), err |-> NoErr]
  ELSE [run |-> FALSE, err |-> Err("ifType", TRUE, 0)]

validateInput(hasSchema, valid) ==
  IF hasSchema /\ ~valid THEN Err("validation", TRUE, 0) ELSE NoErr

\* ------------------------------------------------------------------------
\* do executor
\* ------------------------------------------------------------------------
Frame(path, len) ==
  [path |-> path, len |-> len, i |-> 1, next |-> 0, pc |-> "iter",
   outAtInvoke |-> <<>>]

Ev(ev, f, t, e) ==
  [ev |-> ev, l |-> f.path, i |-> f.i, n |-> f.len, t |-> t, e |-> e]

NoPost ==
  [valid |-> FALSE, export |-> NoExport, result |-> "nil",
   outStart |-> <<>>, outBefore |-> <<>>, outAfter |-> <<>>]

Running(st) == [st |-> st, err |-> NoErr, out |-> <<>>]

\* The documents explored come in two families, so that the flow
\* directives and the exports are each explored in full without multiplying
\* one another: "flow" documents declare any `then` and no export.as,
\* "export" documents declare any export.as and a `then` that is absent,
\* `end`, or the key of no task.
Families == {"flow", "export"}

ExportsOf(fam) == IF fam = "export" THEN ExportDecls ELSE {NoExport}

ThensOf(fam) ==
  IF fam = "flow" THEN ThenValues
  ELSE {NoThen, [set |-> TRUE, dir |-> "end", target |-> 0],
        [set |-> TRUE, dir |-> "", target |-> MaxTasks + 1]}

InitDo ==
  /\ family \in Families
  /\ stack = <<>>
  /\ state = NewState
  /\ dlog = <<>>
  /\ dret = Running("init")
  /\ declared = 0
  /\ lastPost = NoPost

Top == stack[Len(stack)]

SetTop(f) == [stack EXCEPT ![Len(stack)] = f]

Active == dret.st = "running" /\ stack # <<>>

\* the executor is at the head of the loop body for task Top.i
AtTask == Active /\ Top.pc = "iter" /\ Top.i <= Top.len

\* a then-target is pending and this task is not it
PendingSkip(f) == f.next # 0 /\ f.i # f.next

\* the pending target after the check at the head of the loop body
ClearedNext_keep(f) == f.next

ClearedNext(f) == IF f.next # 0 /\ f.i = f.next THEN 0 ELSE f.next

\* `continue`: on to the next task of the list
Advance(f) == [f EXCEPT !.i = f.i + 1, !.pc = "iter"]

\* the raise events of the enclosing do tasks, innermost first, when an
\* error leaves the frame on top of the stack
Unwind(e) ==
  [k \in 1..(Len(stack) - 1) |->
     Ev("raise", stack[Len(stack) - k], 0, e)]

\* an error return of iterateTasks: every enclosing do returns it unchanged
Fail(evs, e) ==
  /\ dlog' = dlog \o evs \o Unwind(e)
  /\ dret' = [st |-> "err", err |-> e, out |-> <<>>]
  /\ stack' = <<>>

\* workflowExecutor on the root do: a fresh state, the document's input
\* schema, then the task loop
WorkflowStart ==
  /\ dret.st = "init"
  /\ \E len \in 1..MaxTasks, hasSchema \in BOOLEAN, valid \in BOOLEAN :
       LET ve == validateInput(hasSchema, valid) IN
       IF ve # NoErr
       THEN /\ dret' = [st |-> "err", err |-> ve, out |-> <<>>]
            /\ UNCHANGED <<exceptDo, family, stack, state, dlog, declared, lastPost>>
       ELSE /\ stack' = <<Frame(<<>>, len)>>
            /\ dret' = Running("running")
            /\ state' = NewState
            /\ declared' = len
            /\ UNCHANGED <<exceptDo, family, dlog, lastPost>>

\* loop body, pending target set and this task is not it: skip
IterSkipPending ==
  /\ AtTask
  /\ PendingSkip(Top)
  /\ state' = AddData(state, "task", Top.i)
  /\ dlog' = Append(dlog, Ev("skip", Top, Top.next, NoErr))
  /\ stack' = SetTop(Advance(Top))
  /\ UNCHANGED <<exceptDo, family, dret, declared, lastPost>>

\* loop body: ShouldRun fails
IterGateError ==
  /\ AtTask
  /\ ~PendingSkip(Top)
  /\ \E res \in EvalResults :
       LET sr == ShouldRun(TRUE, res) IN
       /\ sr.err # NoErr
       /\ state' = AddData(state, "task", Top.i)
       /\ Fail(<<Ev("gate", Top, 0, sr.err)>>, sr.err)
  /\ UNCHANGED <<exceptDo, family, declared, lastPost>>

IterGateFalse_exports ==
  /\ AtTask
  /\ ~PendingSkip(Top)
  /\ \E res \in EvalResults :
       LET sr == ShouldRun(TRUE, res) IN
       /\ sr.err = NoErr /\ ~sr.run
       /\ state' = AddOutput(AddData(state, "task", Top.i), <<"u">>, "r1")
       /\ dlog' = Append(dlog, Ev("gate", Top, 0, NoErr))
       /\ stack' = SetTop(Advance([Top EXCEPT !.next = ClearedNext(Top)]))
  /\ UNCHANGED <<exceptDo, family, dret, declared, lastPost>>

IterGateFalse_keepsTarget ==
  /\ AtTask
  /\ ~PendingSkip(Top)
  /\ \E res \in EvalResults :
       LET sr == ShouldRun(TRUE, res) IN
       /\ sr.err = NoErr /\ ~sr.run
       /\ state' = AddData(state, "task", Top.i)
       /\ dlog' = Append(dlog, Ev("gate", Top, 0, NoErr))
       /\ stack' = SetTop(Advance(Top))
  /\ UNCHANGED <<exceptDo, family, dret, declared, lastPost>>

\* loop body: the if statement resolves to false
IterGateFalse ==
  /\ AtTask
  /\ ~PendingSkip(Top)
  /\ \E res \in EvalResults :
       LET sr == ShouldRun(TRUE, res) IN
       /\ sr.err = NoErr /\ ~sr.run
       /\ state' = AddData(state, "task", Top.i)
       /\ dlog' = Append(dlog, Ev("gate", Top, 0, NoErr))
       /\ stack' = SetTop(Advance([Top EXCEPT !.next = ClearedNext(Top)]))
  /\ UNCHANGED <<exceptDo, family, dret, declared, lastPost>>

\* the task passes its if-gate
GatePasses == \E hasIf \in BOOLEAN, res \in EvalResults :
  LET sr == ShouldRun(hasIf, res) IN sr.err = NoErr /\ sr.run

\* loop body: the task's input fails its schema
IterInputInvalid ==
  /\ AtTask
  /\ ~PendingSkip(Top)
  /\ GatePasses
  /\ \E valid \in BOOLEAN :
       LET ve == validateInput(TRUE, valid) IN
       /\ ve # NoErr
       /\ state' = AddData(state, "task", Top.i)
       /\ Fail(<<Ev("gate", Top, 0, NoErr), Ev("validate", Top, 0, ve)>>, ve)
  /\ UNCHANGED <<exceptDo, family, declared, lastPost>>

InputPasses == \E hasSchema \in BOOLEAN, valid \in BOOLEAN :
  validateInput(hasSchema, valid) = NoErr

PreBody_metaFirst(f) ==
  <<Ev("gate", f, 0, NoErr), Ev("meta", f, 0, NoErr),
    Ev("validate", f, 0, NoErr)>>

PreBody(f) ==
  <<Ev("gate", f, 0, NoErr), Ev("validate", f, 0, NoErr),
    Ev("meta", f, 0, NoErr)>>

\* loop body: ParseMetadata fails
IterMetaError ==
  /\ AtTask
  /\ ~PendingSkip(Top)
  /\ GatePasses
  /\ InputPasses
  /\ LET me == Err("metadata", FALSE, 0) IN
       /\ state' = AddData(state, "task", Top.i)
       /\ Fail(<<Ev("gate", Top, 0, NoErr), Ev("validate", Top, 0, NoErr),
                 Ev("meta", Top, 0, me)>>, me)
  /\ UNCHANGED <<exceptDo, family, declared, lastPost>>

\* the frame while task.Func runs
Invoked_noWait(f, out) == Advance(f)

Invoked(f, out) ==
  [f EXCEPT !.next = ClearedNext(f), !.pc = "body", !.outAtInvoke = out]

\* loop body: all checks pass, the body of a leaf task is invoked
IterInvokeLeaf ==
  /\ AtTask
  /\ ~PendingSkip(Top)
  /\ GatePasses
  /\ InputPasses
  /\ state' = AddData(state, "task", Top.i)
  /\ dlog' = dlog \o PreBody(Top) \o <<Ev("invoke", Top, 0, NoErr)>>
  /\ stack' = SetTop(Invoked(Top, state.output))
  /\ UNCHANGED <<exceptDo, family, dret, declared, lastPost>>

\* loop body: all checks pass, the task is a nested do: its workflowExecutor
\* runs on the same state and starts its own loop
IterInvokeDo ==
  /\ AtTask
  /\ ~PendingSkip(Top)
  /\ GatePasses
  /\ InputPasses
  /\ \E len \in 1..(MaxTasks - declared) :
       /\ state' = AddData(state, "task", Top.i)
       /\ dlog' = dlog \o PreBody(Top) \o <<Ev("invoke", Top, 0, NoErr)>>
       /\ stack' = Append(SetTop(Invoked(Top, state.output)),
                          Frame(Append(Top.path, Top.i), len))
       /\ declared' = declared + len
  /\ UNCHANGED <<exceptDo, family, dret, lastPost>>

\* the index the loop continues at after a then that names a task
JumpIndex_backward(f, target) == IF target <= f.i THEN target ELSE f.i + 1

JumpIndex(f, target) == f.i + 1

AfterThen_ignoreEnd(f, then) ==
  IF then.set /\ ~IsEnum(then)
    THEN [f EXCEPT !.i = JumpIndex(f, then.target), !.pc = "iter",
                   !.next = then.target]
  ELSE Advance(f)

\* the frame after the `then` of the task that just ran
AfterThen(f, then) ==
  IF then.set /\ IsTermination(then)
    THEN [f EXCEPT !.i = f.len + 1, !.pc = "iter"]
  ELSE IF then.set /\ ~IsEnum(then)
    THEN [f EXCEPT !.i = JumpIndex(f, then.target), !.pc = "iter",
                   !.next = then.target]
  ELSE Advance(f)

\* what the then inspection does: break, a pending target, or nothing
ThenEv(f, then) ==
  IF then.set /\ IsTermination(then) THEN Ev("exit", f, 0, NoErr)
  ELSE IF then.set /\ ~IsEnum(then)
    THEN Ev("jump", f, then.target, NoErr)
  ELSE Ev("then", f, 0, NoErr)

\* the rest of the loop body after task.Func returned `result` without
\* error to frame f (the stack below f is `below`): AddOutput, then `then`
Post(below, f, s, result, evs) ==
  \E export \in ExportsOf(family), then \in ThensOf(family) :
    LET s2 == AddOutput(s, export, result) IN
    /\ state' = s2
    /\ lastPost' = [valid |-> TRUE, export |-> export, result |-> result,
                    outStart |-> f.outAtInvoke, outBefore |-> s.output,
                    outAfter |-> s2.output]
    /\ dlog' = dlog \o evs
                 \o <<Ev("return", f, 0, NoErr), Ev("export", f, 0, NoErr),
                      ThenEv(f, then)>>
    /\ stack' = Append(below, AfterThen(f, then))

\* a leaf body returns an error: iterateTasks returns it
BodyError_swallow ==
  /\ Active /\ Top.pc = "body"
  /\ \E e \in BodyErrors :
       /\ dlog' = Append(dlog, Ev("raise", Top, 0, e))
       /\ stack' = SetTop(Advance(Top))
  /\ UNCHANGED <<exceptDo, family, state, dret, declared, lastPost>>

BodyError ==
  /\ Active /\ Top.pc = "body"
  /\ \E e \in BodyErrors : Fail(<<Ev("raise", Top, 0, e)>>, e)
  /\ UNCHANGED <<exceptDo, family, state, declared, lastPost>>

\* a leaf body returns without error; it may have written state.data
BodyOk ==
  /\ Active /\ Top.pc = "body"
  /\ \E result \in LeafResults, wrote \in BOOLEAN :
       Post(SubSeq(stack, 1, Len(stack) - 1), Top,
            IF wrote THEN AddData(state, "x", 1) ELSE state,
            result, <<>>)
  /\ UNCHANGED <<exceptDo, family, dret, declared>>

AtLoopEnd == Active /\ Top.pc = "iter" /\ Top.i > Top.len

\* the error for a then-target no later task carries
NotFound(target) == Err("notfound", FALSE, target)

\* after the loop, a target is still pending
LoopEndMissing_forgiving ==
  /\ AtLoopEnd
  /\ Top.next # 0
  /\ Len(stack) = 1
  /\ dret' = [st |-> "ok", err |-> NoErr, out |-> state.output]
  /\ stack' = <<>>
  /\ dlog' = Append(dlog, Ev("end", Top, 0, NoErr))
  /\ UNCHANGED <<exceptDo, family, state, declared, lastPost>>

LoopEndMissing ==
  /\ AtLoopEnd
  /\ Top.next # 0
  /\ Fail(<<Ev("end", Top, Top.next, NotFound(Top.next))>>,
          NotFound(Top.next))
  /\ UNCHANGED <<exceptDo, family, state, declared, lastPost>>

\* after the loop of the root do: the workflow returns state.Output
LoopEndRoot ==
  /\ AtLoopEnd
  /\ Top.next = 0
  /\ Len(stack) = 1
  /\ dret' = [st |-> "ok", err |-> NoErr, out |-> state.output]
  /\ stack' = <<>>
  /\ dlog' = Append(dlog, Ev("end", Top, 0, NoErr))
  /\ UNCHANGED <<exceptDo, family, state, declared, lastPost>>

\* after the loop of a nested do: it returns state.Output to the loop body
\* of the enclosing do, which goes on with AddOutput and `then`
LoopEndNested ==
  /\ AtLoopEnd
  /\ Top.next = 0
  /\ Len(stack) > 1
  /\ Post(SubSeq(stack, 1, Len(stack) - 2), stack[Len(stack) - 1], state,
          OutputRef, <<Ev("end", Top, 0, NoErr)>>)
  /\ UNCHANGED <<exceptDo, family, dret, declared>>

NextDo ==
  \/ WorkflowStart
  \/ IterSkipPending
  \/ IterGateError
  \/ IterGateFalse
  \/ IterInputInvalid
  \/ IterMetaError
  \/ IterInvokeLeaf
  \/ IterInvokeDo
  \/ BodyError
  \/ BodyOk
  \/ LoopEndMissing
  \/ LoopEndRoot
  \/ LoopEndNested

\* ------------------------------------------------------------------------
\* fork
\* ------------------------------------------------------------------------
InitFork ==
  /\ fpc = "idle"
  /\ isCompeting = FALSE
  /\ goDerived = FALSE
  /\ futures = <<>>
  /\ coroutine = <<>>
  /\ hasReplied = <<>>
  /\ i = 0
  /\ replyErr = NoErr
  /\ winningCtx = <<>>
  /\ cancelled = {}
  /\ fret = Running("init")

Branches == DOMAIN futures

\* no context: the zero value of winningCtx
NilCtx == <<>>

\* the context a branch's child workflow was started with, kept in its
\* CancellableFuture
ChildCtx(b) == <<"child", b>>

\* the context the reply coroutine of branch b runs with: workflow.Go is the
\* engine's, and hands on the context it was given or one derived from it
GoCtx(b) == IF goDerived THEN <<"spawned", b>> ELSE ChildCtx(b)

\* the branch whose coroutine captured winningCtx
Winner == winningCtx[2]

\* utils.SliceEvery with the identity predicate
SliceEvery(items) == \A k \in DOMAIN items : items[k]

\* CancellableFutures.CancelOthers: the handles it invokes
CancelOthers(passedContext) ==
  {b \in Branches : ChildCtx(b) # passedContext}

\* exec up to its Await: one child workflow per branch, one reply coroutine
\* per future
ForkStart ==
  /\ fpc = "idle"
  /\ \E compete \in BOOLEAN, derived \in BOOLEAN, n \in 1..MaxBranches :
       /\ isCompeting' = compete
       /\ goDerived' = derived
       /\ futures' = [b \in 1..n |-> "running"]
       /\ coroutine' = [b \in 1..n |-> "waiting"]
       /\ hasReplied' = [k \in 1..n |-> FALSE]
  /\ i' = 0
  /\ replyErr' = NoErr
  /\ winningCtx' = NilCtx
  /\ fpc' = "await"
  /\ fret' = Running("running")
  /\ UNCHANGED <<exceptFork, cancelled>>

\* the engine: a child workflow completes
ChildCompletes ==
  /\ \E b \in Branches :
       /\ futures[b] = "running"
       /\ futures' = [futures EXCEPT ![b] = "ok"]
  /\ UNCHANGED <<exceptFork, fpc, isCompeting, goDerived, coroutine,
                 hasReplied, i, replyErr, winningCtx, cancelled, fret>>

\* the engine: a child workflow fails
ChildFails ==
  /\ \E b \in Branches :
       /\ futures[b] = "running"
       /\ futures' = [futures EXCEPT ![b] = "err"]
  /\ UNCHANGED <<exceptFork, fpc, isCompeting, goDerived, coroutine,
                 hasReplied, i, replyErr, winningCtx, cancelled, fret>>

\* the engine: a child workflow ends cancelled (its handle, its parent's
\* context or an operator asked for it)
ChildCancelled ==
  /\ \E b \in Branches :
       /\ futures[b] = "running"
       /\ futures' = [futures EXCEPT ![b] = "cancelled"]
  /\ UNCHANGED <<exceptFork, fpc, isCompeting, goDerived, coroutine,
                 hasReplied, i, replyErr, winningCtx, cancelled, fret>>

\* the tail of a reply coroutine that did not return early
Replied(b) ==
  /\ hasReplied' = [hasReplied EXCEPT ![i + 1] = TRUE]
  /\ winningCtx' = IF isCompeting /\ winningCtx = NilCtx
                   THEN GoCtx(b) ELSE winningCtx
  /\ i' = i + 1
  /\ coroutine' = [coroutine EXCEPT ![b] = "done"]

CoroutineCancelled_records ==
  /\ \E b \in Branches :
       /\ coroutine[b] = "waiting"
       /\ futures[b] = "cancelled"
       /\ replyErr' = Err("fork", FALSE, b)
       /\ coroutine' = [coroutine EXCEPT ![b] = "done"]
  /\ UNCHANGED <<exceptFork, fpc, isCompeting, goDerived, futures,
                 hasReplied, i, winningCtx, cancelled, fret>>

\* reply coroutine: Future.Get returns a cancellation error
CoroutineCancelled ==
  /\ \E b \in Branches :
       /\ coroutine[b] = "waiting"
       /\ futures[b] = "cancelled"
       /\ coroutine' = [coroutine EXCEPT ![b] = "done"]
  /\ UNCHANGED <<exceptFork, fpc, isCompeting, goDerived, futures,
                 hasReplied, i, replyErr, winningCtx, cancelled, fret>>

\* reply coroutine: Future.Get returns another error
CoroutineError ==
  /\ \E b \in Branches :
       /\ coroutine[b] = "waiting"
       /\ futures[b] = "err"
       /\ replyErr' = Err("fork", FALSE, b)
       /\ Replied(b)
  /\ UNCHANGED <<exceptFork, fpc, isCompeting, goDerived, futures,
                 cancelled, fret>>

\* reply coroutine: Future.Get returns the child's result
CoroutineSuccess ==
  /\ \E b \in Branches :
       /\ coroutine[b] = "waiting"
       /\ futures[b] = "ok"
       /\ Replied(b)
  /\ UNCHANGED <<exceptFork, fpc, isCompeting, goDerived, futures,
                 replyErr, cancelled, fret>>

\* the condition exec awaits
AwaitPredicate_any ==
  \/ replyErr # NoErr
  \/ IF isCompeting THEN winningCtx # NilCtx
     ELSE \E k \in DOMAIN hasReplied : hasReplied[k]

AwaitPredicate ==
  \/ replyErr # NoErr
  \/ IF isCompeting THEN winningCtx # NilCtx ELSE SliceEvery(hasReplied)

\* exec: Await itself fails, the workflow's context being cancelled
ForkAwaitError ==
  /\ fpc = "await"
  /\ fpc' = "done"
  /\ fret' = [st |-> "err", err |-> Err("await", FALSE, 0), out |-> <<>>]
  /\ UNCHANGED <<exceptFork, isCompeting, goDerived, futures,
                 coroutine, hasReplied, i, replyErr, winningCtx, cancelled>>

\* exec after Await: a branch error was recorded
ForkReturnError_cancel ==
  /\ fpc = "await"
  /\ AwaitPredicate
  /\ replyErr # NoErr
  /\ fpc' = "done"
  /\ fret' = [st |-> "err", err |-> replyErr, out |-> <<>>]
  /\ cancelled' = cancelled \cup CancelOthers(winningCtx)
  /\ UNCHANGED <<exceptFork, isCompeting, goDerived, futures,
                 coroutine, hasReplied, i, replyErr, winningCtx>>

ForkReturnError ==
  /\ fpc = "await"
  /\ AwaitPredicate
  /\ replyErr # NoErr
  /\ fpc' = "done"
  /\ fret' = [st |-> "err", err |-> replyErr, out |-> <<>>]
  /\ UNCHANGED <<exceptFork, isCompeting, goDerived, futures,
                 coroutine, hasReplied, i, replyErr, winningCtx, cancelled>>

\* exec after Await, competing: cancel the others and return
ForkReturnCompeting ==
  /\ fpc = "await"
  /\ AwaitPredicate
  /\ replyErr = NoErr
  /\ isCompeting
  /\ cancelled' = cancelled \cup CancelOthers(winningCtx)
  /\ fpc' = "done"
  /\ fret' = [st |-> "ok", err |-> NoErr, out |-> <<>>]
  /\ UNCHANGED <<exceptFork, isCompeting, goDerived, futures,
                 coroutine, hasReplied, i, replyErr, winningCtx>>

\* exec after Await, not competing: return
ForkReturnAll ==
  /\ fpc = "await"
  /\ AwaitPredicate
  /\ replyErr = NoErr
  /\ ~isCompeting
  /\ fpc' = "done"
  /\ fret' = [st |-> "ok", err |-> NoErr, out |-> <<>>]
  /\ UNCHANGED <<exceptFork, isCompeting, goDerived, futures,
                 coroutine, hasReplied, i, replyErr, winningCtx, cancelled>>

NextFork ==
  \/ ForkStart
  \/ ChildCompletes
  \/ ChildFails
  \/ ChildCancelled
  \/ CoroutineCancelled
  \/ CoroutineError
  \/ CoroutineSuccess
  \/ ForkAwaitError
  \/ ForkReturnError
  \/ ForkReturnCompeting
  \/ ForkReturnAll

\* ------------------------------------------------------------------------
\* listen
\* ------------------------------------------------------------------------
ListenTaskTypes == {"query", "signal", "update"}

InitListen ==
  /\ lpc = "idle"
  /\ mode = "none"
  /\ events = <<>>
  /\ areAllComplete = <<>>
  /\ areAnyComplete = FALSE
  /\ awaitAny = FALSE
  /\ received = <<>>
  /\ ldata = {}
  /\ lret = Running("init")

\* the entry lists of a given length
EventLists(n) == [1..n -> ListenTaskTypes]

\* listEvents: the entries a strategy may declare
EventsOf(m) ==
  IF m = "one" THEN EventLists(1)
  ELSE UNION {EventLists(n) : n \in 1..MaxEvents}

\* listEvents: `all`, and `one` as an `all` of one entry
IsAll(m) == m \in {"all", "one"}

\* Build: no strategy declares an entry, no workflow function is made
ListenBuildError ==
  /\ lpc = "idle"
  /\ lpc' = "done"
  /\ lret' = [st |-> "err", err |-> Err("nolisten", FALSE, 0), out |-> <<>>]
  /\ UNCHANGED <<exceptListen, mode, events, areAllComplete,
                 areAnyComplete, awaitAny, received, ldata>>

AwaitFlag_ignoreQuery(evs) == TRUE

\* the `await` flag after the registration loop: a query entry clears it
AwaitFlag(evs) == \A k \in DOMAIN evs : evs[k] # "query"

\* the workflow function up to its await: every entry is registered, and
\* await is called with the completion flags as they stand
ListenStart ==
  /\ lpc = "idle"
  /\ \E m \in {"all", "any", "one"} : \E evs \in EventsOf(m) :
       /\ mode' = m
       /\ events' = evs
       /\ areAllComplete' = IF IsAll(m) THEN [k \in DOMAIN evs |-> FALSE]
                            ELSE <<>>
       /\ received' = [k \in DOMAIN evs |-> 0]
       /\ IF AwaitFlag(evs)
          THEN /\ lpc' = "await"
               /\ lret' = Running("running")
          ELSE /\ lpc' = "done"
               /\ lret' = [st |-> "ok", err |-> NoErr, out |-> <<>>]
  /\ areAnyComplete' = FALSE
  /\ awaitAny' = areAnyComplete'
  /\ UNCHANGED <<exceptListen, ldata>>

\* the workflow function: registering the handler of entry k fails
ListenRegisterError ==
  /\ lpc = "idle"
  /\ \E m \in {"all", "any", "one"} : \E evs \in EventsOf(m) :
       \E k \in DOMAIN evs :
         /\ evs[k] \in {"query", "update"}
         /\ mode' = m
         /\ events' = SubSeq(evs, 1, k - 1)
         /\ areAllComplete' = IF IsAll(m) THEN [j \in 1..k |-> FALSE]
                              ELSE <<>>
         /\ received' = [j \in 1..(k - 1) |-> 0]
  /\ lpc' = "done"
  /\ lret' = [st |-> "err", err |-> Err("register", FALSE, 0), out |-> <<>>]
  /\ UNCHANGED <<exceptListen, areAnyComplete, awaitAny, ldata>>

\* fn(key): what an entry's handler does on success
OnSuccess_all(all, key) == [k \in DOMAIN all |-> TRUE]

OnSuccess(all, key) == [all EXCEPT ![key] = TRUE]

Complete(k) ==
  IF IsAll(mode)
  THEN /\ areAllComplete' = OnSuccess(areAllComplete, k)
       /\ UNCHANGED areAnyComplete
  ELSE /\ areAnyComplete' = TRUE
       /\ UNCHANGED areAllComplete

\* a query handler answers a query
QueryReceived ==
  /\ \E k \in DOMAIN events :
       /\ events[k] = "query"
       /\ received[k] < MaxReceived
       /\ received' = [received EXCEPT ![k] = @ + 1]
  /\ UNCHANGED <<exceptListen, lpc, mode, events, areAllComplete,
                 areAnyComplete, awaitAny, ldata, lret>>

\* the coroutine of a signal entry receives its one signal
SignalReceived ==
  /\ \E k \in DOMAIN events :
       /\ events[k] = "signal"
       /\ received[k] = 0
       /\ received' = [received EXCEPT ![k] = 1]
       /\ ldata' = ldata \cup {<<"task">>}
       /\ Complete(k)
  /\ UNCHANGED <<exceptListen, lpc, mode, events, awaitAny, lret>>

\* an update handler handles an update; its reply may fail
UpdateReceived ==
  /\ \E k \in DOMAIN events :
       /\ events[k] = "update"
       /\ received[k] < MaxReceived
       /\ received' = [received EXCEPT ![k] = @ + 1]
       /\ ldata' = ldata \cup {<<"event", k>>}
       /\ Complete(k)
  /\ UNCHANGED <<exceptListen, lpc, mode, events, awaitAny, lret>>

\* utils.SlicesEqual(slice, value): every element equals the value
SlicesEqual(slice, value) == \A k \in DOMAIN slice : slice[k] = value

\* the condition await waits for
ListenPredicate ==
  IF IsAll(mode) THEN SlicesEqual(areAllComplete, TRUE) ELSE awaitAny

\* await: the condition holds
ListenAwaitOk ==
  /\ lpc = "await"
  /\ ListenPredicate
  /\ lpc' = "done"
  /\ lret' = [st |-> "ok", err |-> NoErr, out |-> <<>>]
  /\ UNCHANGED <<exceptListen, mode, events, areAllComplete,
                 areAnyComplete, awaitAny, received, ldata>>

\* await: the timeout expires first
ListenTimeout_never ==
  /\ lpc = "await"
  /\ FALSE
  /\ UNCHANGED vars

ListenTimeout ==
  /\ lpc = "await"
  /\ ~ListenPredicate
  /\ lpc' = "done"
  /\ lret' = [st |-> "err", err |-> Err("timeout", FALSE, 0), out |-> <<>>]
  /\ UNCHANGED <<exceptListen, mode, events, areAllComplete,
                 areAnyComplete, awaitAny, received, ldata>>

\* await: AwaitWithTimeout itself fails, the workflow's context being
\* cancelled
ListenAwaitError ==
  /\ lpc = "await"
  /\ lpc' = "done"
  /\ lret' = [st |-> "err", err |-> Err("await", FALSE, 0), out |-> <<>>]
  /\ UNCHANGED <<exceptListen, mode, events, areAllComplete,
                 areAnyComplete, awaitAny, received, ldata>>

NextListen ==
  \/ ListenBuildError
  \/ ListenStart
  \/ ListenRegisterError
  \/ QueryReceived
  \/ SignalReceived
  \/ UpdateReceived
  \/ ListenAwaitOk
  \/ ListenTimeout
  \/ ListenAwaitError

\* ------------------------------------------------------------------------
\* switch
\* ------------------------------------------------------------------------
\* an entry without `when`
NoWhen == [kind |-> "none", s |-> ""]

\* what the `when` of an entry is or evaluates to against the state
WhenValues == {NoWhen} \cup EvalResults

\* the `then` of an entry: not set, a terminal directive, or a task key
SwitchThens == {"nil", "termination", "target"}

InitSwitch ==
  /\ spc = "idle"
  /\ cases = <<>>
  /\ sidx = 0
  /\ evaluated = {}
  /\ selected = 0
  /\ children = 0
  /\ sret = Running("init")

\* utils.CheckIfStatement
CheckIfStatement(when) ==
  IF when = NoWhen THEN [run |-> TRUE, err |-> NoErr]
  ELSE IF when.kind = "error"
    THEN [run |-> FALSE, err |-> Err("ifParse", TRUE, 0)]
  ELSE IF when.kind = "bool"
    THEN [run |-> (when.s = "true"), err |-> NoErr]
  ELSE IF when.kind = "string"
    THEN [run |-> (EqualFoldTRUE(when.s) \/ when.s = "1"), err |-> NoErr]
  ELSE [run |-> FALSE, err |-> Err("ifType", TRUE, 0)]

\* the loop of Build over the entries from k on: the position of the entry
\* it fails at, 0 when it fails at none
RECURSIVE CheckDefaults_forget(_, _, _)
CheckDefaults_forget(cs, k, hasDefault) ==
  IF k > Len(cs) THEN 0
  ELSE IF cs[k] = NoWhen /\ hasDefault THEN k
  ELSE CheckDefaults_forget(cs, k + 1, hasDefault)

RECURSIVE CheckDefaults(_, _, _)
CheckDefaults(cs, k, hasDefault) ==
  IF k > Len(cs) THEN 0
  ELSE IF cs[k] = NoWhen
    THEN IF hasDefault THEN k ELSE CheckDefaults(cs, k + 1, TRUE)
  ELSE CheckDefaults(cs, k + 1, hasDefault)

\* Build: the entries are checked for a second default
SwitchBuild ==
  /\ spc = "idle"
  /\ \E n \in 1..MaxCases : \E cs \in [1..n -> WhenValues] :
       LET bad == CheckDefaults(cs, 1, FALSE) IN
       /\ cases' = cs
       /\ IF bad # 0
          THEN /\ spc' = "done"
               /\ sret' = [st |-> "err", err |-> Err("multidefault", FALSE, bad),
                           out |-> <<>>]
               /\ sidx' = 0
          ELSE /\ spc' = "run"
               /\ sret' = Running("running")
               /\ sidx' = 1
  /\ UNCHANGED <<exceptSwitch, evaluated, selected, children>>

AtCase == spc = "run" /\ sidx <= Len(cases)

\* the entries whose `when` has been evaluated, this one included
Evaluated == IF cases[sidx] = NoWhen THEN evaluated ELSE evaluated \cup {sidx}

\* the workflow function: the `when` of this entry fails to evaluate
SwitchWhenError ==
  /\ AtCase
  /\ CheckIfStatement(cases[sidx]).err # NoErr
  /\ evaluated' = Evaluated
  /\ spc' = "done"
  /\ sret' = [st |-> "err", err |-> CheckIfStatement(cases[sidx]).err,
              out |-> <<>>]
  /\ UNCHANGED <<exceptSwitch, cases, sidx, selected, children>>

\* the workflow function: this entry is not to run, on to the next
SwitchSkip ==
  /\ AtCase
  /\ CheckIfStatement(cases[sidx]).err = NoErr
  /\ ~CheckIfStatement(cases[sidx]).run
  /\ evaluated' = Evaluated
  /\ sidx' = sidx + 1
  /\ UNCHANGED <<exceptSwitch, spc, cases, selected, children, sret>>

\* the workflow function: this entry is to run
ShouldRunCase ==
  /\ AtCase
  /\ CheckIfStatement(cases[sidx]).err = NoErr
  /\ CheckIfStatement(cases[sidx]).run

\* the entry to run has no `then` or a terminal one: the switch returns
SwitchSelectReturn ==
  /\ ShouldRunCase
  /\ \E then \in SwitchThens \ {"target"} :
       /\ evaluated' = Evaluated
       /\ selected' = sidx
       /\ spc' = "done"
       /\ sret' = [st |-> "ok", err |-> NoErr, out |-> <<>>]
  /\ UNCHANGED <<exceptSwitch, cases, sidx, children>>

\* the `then` of the entry to run names a task: it is executed as a child
\* workflow
SwitchSelectChild ==
  /\ ShouldRunCase
  /\ evaluated' = Evaluated
  /\ selected' = sidx
  /\ children' = children + 1
  /\ spc' = "child"
  /\ UNCHANGED <<exceptSwitch, cases, sidx, sret>>

\* the child workflow returns
SwitchChildOk ==
  /\ spc = "child"
  /\ spc' = "done"
  /\ sret' = [st |-> "ok", err |-> NoErr, out |-> <<>>]
  /\ UNCHANGED <<exceptSwitch, cases, sidx, evaluated, selected, children>>

\* the child workflow fails: its error is returned as it is
SwitchChildError ==
  /\ spc = "child"
  /\ \E e \in BodyErrors :
       sret' = [st |-> "err", err |-> e, out |-> <<>>]
  /\ spc' = "done"
  /\ UNCHANGED <<exceptSwitch, cases, sidx, evaluated, selected, children>>

\* no entry was to run
SwitchNoMatch ==
  /\ spc = "run"
  /\ sidx > Len(cases)
  /\ spc' = "done"
  /\ sret' = [st |-> "ok", err |-> NoErr, out |-> <<>>]
  /\ UNCHANGED <<exceptSwitch, cases, sidx, evaluated, selected, children>>

NextSwitch ==
  \/ SwitchBuild
  \/ SwitchWhenError
  \/ SwitchSkip
  \/ SwitchSelectReturn
  \/ SwitchSelectChild
  \/ SwitchChildOk
  \/ SwitchChildError
  \/ SwitchNoMatch

\* ------------------------------------------------------------------------
\* schedule reconciliation
\* ------------------------------------------------------------------------
Reconcilers == 1..MaxReconcilers

\* the scheduled documents: what the metadata and the schedule declare. A
\* document has at most one of the defects UpsertSchedule rejects.
Defects(d) ==
  {x \in {"scheduleId", "scheduleWorkflowName", "scheduleInput", "schedule"} :
     \/ x = "scheduleId" /\ d.scheduleId = "nonstring"
     \/ x = "scheduleWorkflowName" /\ d.scheduleWorkflowName # "string"
     \/ x = "scheduleInput" /\ d.scheduleInput = "nonarray"
     \/ x = "schedule" /\ d.schedule = "after"}

Documents ==
  {d \in [scheduleId : {"absent", "string", "nonstring"},
          schedule : {"nil", "cron", "every", "after"},
          scheduleWorkflowName : {"absent", "string", "nonstring"},
          scheduleInput : {"absent", "array", "nonarray"}] :
     Cardinality(Defects(d)) <= 1}

\* a schedule on the engine
Schedule(id, spec, args) == [id |-> id, spec |-> spec, args |-> args]

\* the schedules the engine may hold before any reconciliation
Preexisting ==
  {Schedule(id, "old", "absent") : id \in {"dsl_name", "custom", "other"}}

NoDocument ==
  [scheduleId |-> "absent", schedule |-> "nil",
   scheduleWorkflowName |-> "absent", scheduleInput |-> "absent"]

\* one run of UpsertSchedule
IdleRun ==
  [pc |-> "idle", seen |-> FALSE, ret |-> NoErr, rpcFailed |-> FALSE,
   after |-> {}, during |-> {}, before |-> {}, left |-> {}]

InitSchedule ==
  /\ upc = "setup"
  /\ sdoc = NoDocument
  /\ engine = {}
  /\ recon = [p \in Reconcilers |-> IdleRun]

\* the document to reconcile and the engine it is reconciled against
ScheduleSetup ==
  /\ upc = "setup"
  /\ upc' = "run"
  /\ sdoc' \in Documents
  /\ engine' \in SUBSET Preexisting
  /\ UNCHANGED <<exceptSchedule, recon>>

\* the identifier UpsertSchedule computes
scheduleID ==
  IF sdoc.scheduleId = "string" THEN "custom" ELSE "dsl_name"

\* the schedule UpsertSchedule creates
ScheduleOptions == Schedule(scheduleID, sdoc.schedule, sdoc.scheduleInput)

Matches_all(s) == TRUE

\* `s.ID == scheduleID`
Matches_never(s) == FALSE

Matches(s) == s.id = scheduleID

Done(p) == recon[p].pc = "done"

\* the runs in progress
InProgress == {q \in Reconcilers : recon[q].pc \in {"listed", "deleted"}}

\* run p returns e, leaving the engine as eng
Return(p, e, rpc, eng) ==
  recon' = [recon EXCEPT ![p] = [@ EXCEPT !.pc = "done", !.ret = e,
                                            !.rpcFailed = @ \/ rpc,
                                            !.left = eng]]

\* UpsertSchedule up to the listing of the schedules
UpsertList ==
  /\ upc = "run"
  /\ \E p \in Reconcilers : \E rpcOk \in BOOLEAN :
       /\ recon[p].pc = "idle"
       /\ IF sdoc.scheduleId = "nonstring"
          THEN /\ rpcOk
               /\ Return(p, Err("scheduleId", FALSE, 0), FALSE, engine)
          ELSE IF ~rpcOk
          THEN Return(p, Err("list", FALSE, 0), TRUE, engine)
          ELSE recon' =
                 [q \in Reconcilers |->
                    IF q = p
                    THEN [recon[p] EXCEPT
                            !.pc = "listed",
                            !.seen = \E s \in engine : Matches(s),
                            !.before = engine,
                            !.after = {r \in Reconcilers : Done(r)},
                            !.during = InProgress]
                    ELSE IF q \in InProgress
                    THEN [recon[q] EXCEPT !.during = @ \cup {p}]
                    ELSE recon[q]]
  /\ UNCHANGED <<exceptSchedule, upc, sdoc, engine>>

\* the loop over the listed schedules meets the one to delete
UpsertDelete ==
  /\ \E p \in Reconcilers : \E rpcOk \in BOOLEAN :
       /\ recon[p].pc = "listed"
       /\ recon[p].seen
       /\ IF ~rpcOk
          THEN /\ Return(p, Err("delete", FALSE, 0), TRUE, engine)
               /\ UNCHANGED engine
          ELSE IF ~\E s \in engine : Matches(s)
          THEN /\ Return(p, Err("delete", FALSE, 1), FALSE, engine)
               /\ UNCHANGED engine
          ELSE /\ engine' = {s \in engine : ~Matches(s)}
               /\ recon' = [recon EXCEPT ![p].pc = "deleted"]
  /\ UNCHANGED <<exceptSchedule, upc, sdoc>>

\* the loop over the listed schedules meets none to delete
UpsertNoMatch ==
  /\ \E p \in Reconcilers : \E rpcOk \in BOOLEAN :
       /\ recon[p].pc = "listed"
       /\ ~recon[p].seen
       /\ IF ~rpcOk
          THEN Return(p, Err("next", FALSE, 0), TRUE, engine)
          ELSE recon' = [recon EXCEPT ![p].pc = "deleted"]
  /\ UNCHANGED <<exceptSchedule, upc, sdoc, engine>>

\* the document declares no schedule: nothing more to do
UpsertNoSchedule ==
  /\ \E p \in Reconcilers :
       /\ recon[p].pc = "deleted"
       /\ sdoc.schedule = "nil"
       /\ Return(p, NoErr, FALSE, engine)
  /\ UNCHANGED <<exceptSchedule, upc, sdoc, engine>>

\* the error of the checks between the deletion and the creation
DeclarationError ==
  IF sdoc.scheduleWorkflowName = "nonstring"
    THEN Err("scheduleWorkflowName", FALSE, 0)
  ELSE IF sdoc.scheduleWorkflowName = "absent"
    THEN Err("ErrScheduleNoWorkflowName", FALSE, 0)
  ELSE IF sdoc.schedule = "after" THEN Err("schedule", FALSE, 0)
  ELSE IF sdoc.scheduleInput = "nonarray" THEN Err("scheduleInput", FALSE, 0)
  ELSE NoErr

\* the schedule declaration is rejected
UpsertInvalid ==
  /\ \E p \in Reconcilers :
       /\ recon[p].pc = "deleted"
       /\ sdoc.schedule # "nil"
       /\ DeclarationError # NoErr
       /\ Return(p, DeclarationError, FALSE, engine)
  /\ UNCHANGED <<exceptSchedule, upc, sdoc, engine>>

UpsertCreate_unchecked ==
  /\ \E p \in Reconcilers : \E rpcOk \in BOOLEAN :
       /\ recon[p].pc = "deleted"
       /\ sdoc.schedule # "nil"
       /\ DeclarationError = NoErr
       /\ IF ~rpcOk
          THEN /\ Return(p, Err("create", FALSE, 0), TRUE, engine)
               /\ UNCHANGED engine
          ELSE /\ engine' = engine \cup {Schedule(scheduleID, sdoc.schedule, p)}
               /\ Return(p, NoErr, FALSE, engine')
  /\ UNCHANGED <<exceptSchedule, upc, sdoc>>

\* the schedule is created; the engine refuses an identifier it holds
UpsertCreate ==
  /\ \E p \in Reconcilers : \E rpcOk \in BOOLEAN :
       /\ recon[p].pc = "deleted"
       /\ sdoc.schedule # "nil"
       /\ DeclarationError = NoErr
       /\ IF ~rpcOk
          THEN /\ Return(p, Err("create", FALSE, 0), TRUE, engine)
               /\ UNCHANGED engine
          ELSE IF \E s \in engine : s.id = scheduleID
          THEN /\ Return(p, Err("create", FALSE, 1), FALSE, engine)
               /\ UNCHANGED engine
          ELSE /\ engine' = engine \cup {ScheduleOptions}
               /\ Return(p, NoErr, FALSE, engine')
  /\ UNCHANGED <<exceptSchedule, upc, sdoc>>

NextSchedule ==
  \/ ScheduleSetup
  \/ UpsertList
  \/ UpsertDelete
  \/ UpsertNoMatch
  \/ UpsertNoSchedule
  \/ UpsertInvalid
  \/ UpsertCreate

\* ------------------------------------------------------------------------
\* Document validation (Workflow.Validate, validateTaskSupported)
\* ------------------------------------------------------------------------
\* the kinds validateTaskSupported rejects; "run" is a run task without
\* `workflow`
UnsupportedKinds == {"emit", "for", "grpc", "openapi", "run", "try"}

\* leaf kinds validateTaskSupported lets through: `set` stands for every
\* supported leaf, "runWorkflow" is a run task with `workflow`
SupportedLeafKinds == {"set", "runWorkflow"}

\* the kinds that hold a task list: do (its `do`) and fork (its branches)
ContainerKinds == {"do", "fork"}

\* a task's metadata as validateSearchAttributes meets it: none, metadata
\* whose search attributes pass (or are absent), attributes the validator
\* rejects, attributes mapstructure cannot decode
MetadataKinds == {"none", "valid", "invalid", "undecodable"}

Task(kind, meta, sub) == [kind |-> kind, meta |-> meta, sub |-> sub]

\* the leaf tasks of the documents: metadata is varied on `set` tasks
LeafTasks ==
  {Task(k, "none", <<>>) : k \in UnsupportedKinds \cup SupportedLeafKinds}
    \cup {Task("set", m, <<>>) : m \in MetadataKinds}

RECURSIVE TasksOfSize(_), ListsOfSize(_)
\* the tasks made of exactly n tasks, themselves included
TasksOfSize(n) ==
  IF n = 1 THEN LeafTasks
  ELSE {Task(k, "none", l) : k \in ContainerKinds, l \in ListsOfSize(n - 1)}

\* the non-empty task lists holding n tasks in all (the empty one for 0)
ListsOfSize(n) ==
  IF n = 0 THEN {<<>>}
  ELSE UNION {{<<t>> \o l : t \in TasksOfSize(m), l \in ListsOfSize(n - m)} :
                m \in 1..n}

\* the documents: a root `do` of at least one task, max tasks at most
DocumentsUpTo(max) == UNION {ListsOfSize(n) : n \in 1..max}

NoValidation == [errs |-> <<>>, err |-> "nil"]

InitValidate ==
  /\ vpc = "idle"
  /\ vdoc = <<>>
  /\ vret = NoValidation

RECURSIVE validateTaskSupported(_)
\* a do task is searched first, task by task, and the first error inside
\* it returned; then the task's own kind is looked at. No other kind is
\* searched.
validateTaskSupported(task) ==
  LET RECURSIVE First(_)
      First(k) ==
        IF k > Len(task.sub) THEN "nil"
        ELSE IF validateTaskSupported(task.sub[k]) # "nil"
          THEN validateTaskSupported(task.sub[k])
        ELSE First(k + 1)
      inner == IF task.kind = "do" THEN First(1) ELSE "nil"
  IN  IF inner # "nil" THEN inner
      ELSE IF task.kind \in UnsupportedKinds THEN "unsupported"
      ELSE "nil"

\* validateSearchAttributes of the k-th root task: the validation errors
\* it adds (named by the task's position) and its error
validateSearchAttributes(doc, k) ==
  CASE doc[k].meta = "undecodable" -> [errs |-> <<>>, err |-> "decode"]
    [] doc[k].meta = "invalid" -> [errs |-> <<k>>, err |-> "nil"]
    [] OTHER -> [errs |-> <<>>, err |-> "nil"]

RECURSIVE ValidateFrom(_, _, _)
\* the loop of Validate over the root tasks, at task k with vErrs so far
ValidateFrom(doc, k, vErrs) ==
  IF k > Len(doc) THEN [errs |-> vErrs, err |-> "nil"]
  ELSE IF validateTaskSupported(doc[k]) # "nil"
    THEN [errs |-> <<>>, err |-> validateTaskSupported(doc[k])]
  ELSE IF doc[k].meta = "none" THEN ValidateFrom(doc, k + 1, vErrs)
  ELSE IF validateSearchAttributes(doc, k).err # "nil"
    THEN [errs |-> <<>>, err |-> validateSearchAttributes(doc, k).err]
  ELSE ValidateFrom(doc, k + 1, vErrs \o validateSearchAttributes(doc, k).errs)

Validate(doc) == ValidateFrom(doc, 1, <<>>)

\* a document is parsed
ValidateParse ==
  /\ vpc = "idle"
  /\ \E doc \in DocumentsUpTo(MaxNodes) : vdoc' = doc
  /\ vpc' = "parsed"
  /\ UNCHANGED <<vret, exceptValidate>>

\* Validate is called on it
ValidateCall ==
  /\ vpc = "parsed"
  /\ vret' = Validate(vdoc)
  /\ vpc' = "done"
  /\ UNCHANGED <<vdoc, exceptValidate>>

NextValidate ==
  \/ ValidateParse
  \/ ValidateCall

\* ------------------------------------------------------------------------
\* Search-attribute coercion (SearchAttribute.setAttribute)
\* ------------------------------------------------------------------------
\* the case of setAttribute's switch that the lowered type string selects;
\* "unknown" is its default case
AttributeTypes ==
  {"bool", "datetime", "double", "int", "keyword", "keywordlist", "text",
   "unknown"}

\* the dynamic Go types of a value
NumericKinds == {"int", "int32", "int64", "float32", "float64"}

OtherKinds == {"nil", "bool", "time", "strings", "list", "map"}

\* the texts of the string values drawn
Texts == {"true", "2025-04-21T09:18:00Z", "1.5", "239", "abc"}

Val(kind, text) == [kind |-> kind, text |-> text]

AttributeValues ==
  {Val(k, "") : k \in NumericKinds \cup OtherKinds}
    \cup {Val("string", t) : t \in Texts}

\* strconv.ParseBool, time.Parse(time.RFC3339, _), strconv.ParseFloat and
\* strconv.ParseInt(_, 10, 64) succeed on these texts
ParseBool(text) == text = "true"

ParseTime(text) == text = "2025-04-21T09:18:00Z"

ParseFloat(text) == text \in {"1.5", "239"}

ParseInt(text) == text = "239"

\* what a setter does: a set update, an unset update, an error value, or
\* a run-time panic
Update == [out |-> "set", err |-> "nil"]

Unset == [out |-> "unset", err |-> "nil"]

Failure(err) == [out |-> "error", err |-> err]

Panic == [out |-> "panic", err |-> "nil"]

NoUpdate == [out |-> "none", err |-> "nil"]

newBooleanUpdate(v) ==
  CASE v.kind = "nil" -> Unset
    [] v.kind = "bool" -> Update
    [] v.kind = "string" ->
         IF ParseBool(v.text) THEN Update ELSE Failure("convert")
    [] OTHER -> Failure("ErrInvalidType")

newDateTimeUpdate(v) ==
  CASE v.kind = "nil" -> Unset
    [] v.kind = "time" -> Update
    [] v.kind = "string" ->
         IF ParseTime(v.text) THEN Update ELSE Failure("convert")
    [] OTHER -> Failure("ErrInvalidType")

newFloatUpdate(v) ==
  CASE v.kind = "nil" -> Unset
    [] v.kind \in NumericKinds -> Update
    [] v.kind = "string" ->
         IF ParseFloat(v.text) THEN Update ELSE Failure("convert")
    [] OTHER -> Failure("ErrInvalidType")

newIntegerUpdate(v) ==
  CASE v.kind = "nil" -> Unset
    [] v.kind \in NumericKinds -> Update
    [] v.kind = "string" ->
         IF ParseInt(v.text) THEN Update ELSE Failure("convert")
    [] OTHER -> Failure("ErrInvalidType")

\* v.Value.(T) in its one-result form: the value when its dynamic type is
\* T, a run-time panic otherwise
TypeAssertion(v, kind) ==
  IF v.kind = kind THEN Update ELSE Panic

newKeywordListUpdate(v) ==
  IF v.kind = "nil" THEN Unset ELSE TypeAssertion(v, "strings")

newKeywordUpdate(v) ==
  IF v.kind = "nil" THEN Unset ELSE TypeAssertion(v, "string")

newTextUpdate(v) ==
  IF v.kind = "nil" THEN Unset ELSE TypeAssertion(v, "string")

setAttribute(type, v) ==
  CASE type = "bool" -> newBooleanUpdate(v)
    [] type = "datetime" -> newDateTimeUpdate(v)
    [] type = "double" -> newFloatUpdate(v)
    [] type = "int" -> newIntegerUpdate(v)
    [] type = "keyword" -> newKeywordUpdate(v)
    [] type = "keywordlist" -> newKeywordListUpdate(v)
    [] type = "text" -> newTextUpdate(v)
    [] OTHER -> Failure("ErrUnknownSearchAttributeType")

InitSearch ==
  /\ apc = "idle"
  /\ attr = [type |-> "unknown", value |-> Val("nil", "")]
  /\ aret = NoUpdate

\* one entry of metadata.searchAttributes is decoded
AttributeDecode ==
  /\ apc = "idle"
  /\ \E type \in AttributeTypes, v \in AttributeValues :
       attr' = [type |-> type, value |-> v]
  /\ apc' = "decoded"
  /\ UNCHANGED <<aret, exceptSearch>>

\* setAttribute is called on it
AttributeSet ==
  /\ apc = "decoded"
  /\ aret' = setAttribute(attr.type, attr.value)
  /\ apc' = "done"
  /\ UNCHANGED <<attr, exceptSearch>>

NextSearch ==
  \/ AttributeDecode
  \/ AttributeSet

\* ------------------------------------------------------------------------
\* The call-http activity (callHTTPActivity, callHTTPAction)
\* ------------------------------------------------------------------------
\* the status codes the server answers with
Statuses == {200, 204, 300, 302, 307, 399, 400, 404, 499, 500, 503, 599}

\* the statuses http.Client follows to the next location
RedirectStatuses == {301, 302, 303, 307, 308}

\* with.output of the task
OutputTypes == {"raw", "response", "content"}

\* what the server answers to the request and to each request that follows
\* a redirect: MaxHops answers at most
Answers == UNION {[1..n -> Statuses] : n \in 1..MaxHops}

\* a call: the answers, with.redirect, with.output, whether the body is
\* JSON, whether the request fails on the network
Calls ==
  [hops : Answers, redirect : BOOLEAN, output : OutputTypes,
   json : BOOLEAN, netErr : BOOLEAN]

NoCall ==
  [hops |-> <<200>>, redirect |-> FALSE, output |-> "content",
   json |-> FALSE, netErr |-> FALSE]

\* what the activity returns: its output (nil with an error), and the
\* error: none, the client's error as it came, or a non-retryable
\* application error; status is the response's status, 0 without one
Outcome(out, err, nonRetryable, status) ==
  [out |-> out, err |-> err, nonRetryable |-> nonRetryable,
   status |-> status]

NoOutcome == Outcome("nil", "none", FALSE, 0)

RECURSIVE Do(_, _)
\* client.Do: with CheckRedirect returning ErrUseLastResponse the first
\* answer is the response; otherwise redirects are followed while there is
\* a further answer
Do(c, k) ==
  IF c.redirect /\ c.hops[k] \in RedirectStatuses /\ k < Len(c.hops)
    THEN Do(c, k + 1)
    ELSE c.hops[k]

\* the body as JSON when it unmarshals, as a string otherwise
Content(c) == IF c.json THEN "bodyJSON" ELSE "string"

parseOutput(outputType, c) ==
  CASE outputType = "raw" -> "base64"
    [] outputType = "response" -> "httpResponse"
    [] OTHER -> Content(c)

callHTTPActivity(c) ==
  LET status == Do(c, 1)
  IN  IF c.netErr THEN Outcome("nil", "client", FALSE, 0)
      ELSE IF status >= 300 /\ status < 400
        THEN Outcome("nil", "CallHTTP error", TRUE, status)
      ELSE IF status >= 400 /\ status < 500
        THEN Outcome("nil", "CallHTTP error", TRUE, status)
      ELSE Outcome(parseOutput(c.output, c), "none", FALSE, status)

InitHttp ==
  /\ hpc = "idle"
  /\ call = NoCall
  /\ hret = NoOutcome

\* the activity is scheduled with its arguments; the server is as it is
HttpSetup ==
  /\ hpc = "idle"
  /\ \E c \in Calls : call' = c
  /\ hpc' = "called"
  /\ UNCHANGED <<hret, exceptHttp>>

\* the activity runs
HttpActivity ==
  /\ hpc = "called"
  /\ hret' = callHTTPActivity(call)
  /\ hpc' = "done"
  /\ UNCHANGED <<call, exceptHttp>>

NextHttp ==
  \/ HttpSetup
  \/ HttpActivity

\* ------------------------------------------------------------------------
\* State.Clone and State.GetAsMap
\* ------------------------------------------------------------------------
\* a value held in a slot: a string, a list of values or a map of values
Str(s) == [k |-> "str", v |-> s]

List(l) == [k |-> "list", v |-> l]

Map(m) == [k |-> "map", v |-> m]

Nil == [k |-> "nil", v |-> ""]

Leaves == {Str("s"), Str("t")}

SlotValues ==
  Leaves \cup {List(<<x>>) : x \in Leaves} \cup {Map("n" :> x) : x \in Leaves}

\* the maps with keys among keys and values among values
MapsOver(keys, values) ==
  UNION {[d -> values] : d \in SUBSET keys}

\* a State with its four slots
State(data, env, input, output) ==
  [data |-> data, env |-> env, input |-> input, output |-> output]

\* NewState(): init() makes the three maps, Input stays nil
NewFullState == State(<<>>, <<>>, Nil, <<>>)

RECURSIVE DeepCloneValue(_)
\* swUtils.DeepCloneValue: a map and a list are rebuilt entry by entry,
\* any other value is returned as it is
DeepCloneValue(x) ==
  CASE x.k = "map" -> Map([key \in DOMAIN x.v |-> DeepCloneValue(x.v[key])])
    [] x.k = "list" -> List([j \in DOMAIN x.v |-> DeepCloneValue(x.v[j])])
    [] OTHER -> x

\* swUtils.DeepClone of a map[string]any
DeepClone(m) == [key \in DOMAIN m |-> DeepCloneValue(m[key])]

Clone_ownSlots(s) ==
  LET s1 == NewFullState
  IN  State(DeepClone(s.data), DeepClone(s1.env), DeepCloneValue(s.input),
            DeepClone(s1.output))

Clone(s) ==
  State(DeepClone(s.data), DeepClone(s.env), DeepCloneValue(s.input),
        DeepClone(s.output))

GetAsMap(s) ==
  LET s1 == Clone(s)
  IN  ("data" :> Map(s1.data)) @@ ("env" :> Map(s1.env))
        @@ ("input" :> s1.input) @@ ("output" :> Map(s1.output))

InitClone ==
  /\ kpc = "idle"
  /\ orig = NewFullState
  /\ cloned = NewFullState

\* a state as a workflow has it at some point
StateBuild ==
  /\ kpc = "idle"
  /\ \E data \in MapsOver({"a", "b"}, SlotValues),
        env \in MapsOver({"e"}, Leaves),
        input \in {Nil} \cup SlotValues,
        output \in MapsOver({"o"}, SlotValues) :
       orig' = State(data, env, input, output)
  /\ kpc' = "built"
  /\ UNCHANGED <<cloned, exceptClone>>

StateClone ==
  /\ kpc = "built"
  /\ cloned' = Clone(orig)
  /\ kpc' = "cloned"
  /\ UNCHANGED <<orig, exceptClone>>

NextClone ==
  \/ StateBuild
  \/ StateClone

\* ------------------------------------------------------------------------
\* The listen reply (ListenTaskBuilder.processReply)
\* ------------------------------------------------------------------------
\* Maps and lists are objects in memory, held by reference: the heap is the
\* sequence of the objects made so far, an address is an index into it.
Ref(a) == [k |-> "ref", v |-> a]

Obj(kind, entries) == [k |-> kind, v |-> entries]

\* the values state.data.x takes
DataValues == {"v1", "v2", "v3"}

Expr == Str("${ .data.x }")

Literal == Str("lit")

\* the `additional.data` templates declared
Templates ==
  {Expr, Literal, Map("m" :> Expr), Map("m" :> Literal), List(<<Expr>>),
   List(<<Expr, Literal>>), Map("m" :> Map("n" :> Expr)),
   Map(("m" :> Expr) @@ ("n" :> Literal)), Map("m" :> List(<<Expr>>))}

\* the `additional` maps declared: with or without `data`
Additionals == {Map(<<>>)} \cup {Map("data" :> t) : t \in Templates}

RECURSIVE Alloc(_, _), AllocEntries(_, _, _, _)
\* the objects of a decoded document value t, added to the heap
Alloc(h, t) ==
  IF t.k \in {"map", "list"}
  THEN LET r == AllocEntries(h, t.v, DOMAIN t.v, <<>>)
       IN  [h |-> Append(r.h, Obj(t.k, r.m)), val |-> Ref(Len(r.h) + 1)]
  ELSE [h |-> h, val |-> t]

AllocEntries(h, src, keys, acc) ==
  IF keys = {} THEN [h |-> h, m |-> acc]
  ELSE LET key == CHOOSE x \in keys : TRUE
           r == Alloc(h, src[key])
       IN  AllocEntries(r.h, src, keys \ {key}, (key :> r.val) @@ acc)

RECURSIVE Deref(_, _)
\* the value a reference stands for
Deref(h, val) ==
  IF val.k = "ref"
  THEN Obj(h[val.v].k,
           [key \in DOMAIN h[val.v].v |-> Deref(h, h[val.v].v[key])])
  ELSE val

CloneObject_alias(h, val) == [h |-> h, val |-> val]

RECURSIVE CloneObject(_, _), CloneEntries(_, _, _, _)
\* swUtil.DeepClone on objects: a new map or list whose entries are the
\* clones of the entries; any other value as it is
CloneObject(h, val) ==
  IF val.k = "ref"
  THEN LET r == CloneEntries(h, h[val.v].v, DOMAIN h[val.v].v, <<>>)
       IN  [h |-> Append(r.h, Obj(h[val.v].k, r.m)),
            val |-> Ref(Len(r.h) + 1)]
  ELSE [h |-> h, val |-> val]

CloneEntries(h, src, keys, acc) ==
  IF keys = {} THEN [h |-> h, m |-> acc]
  ELSE LET key == CHOOSE x \in keys : TRUE
           r == CloneObject(h, src[key])
       IN  CloneEntries(r.h, src, keys \ {key}, (key :> r.val) @@ acc)

\* EvaluateString: a runtime expression gives its value under the state,
\* any other string itself
EvaluateString(s, x) == IF Str(s) = Expr THEN Str(x) ELSE Str(s)

RECURSIVE traverseAndEvaluate(_, _, _), TraverseEntries(_, _, _, _)
\* a map or a list is evaluated entry by entry and each result written
\* back into it; a string is evaluated
traverseAndEvaluate(h, val, x) ==
  IF val.k = "ref"
    THEN [h |-> TraverseEntries(h, val.v, DOMAIN h[val.v].v, x), val |-> val]
  ELSE IF val.k = "str" THEN [h |-> h, val |-> EvaluateString(val.v, x)]
  ELSE [h |-> h, val |-> val]

TraverseEntries(h, a, keys, x) ==
  IF keys = {} THEN h
  ELSE LET key == CHOOSE y \in keys : TRUE
           r == traverseAndEvaluate(h, h[a].v[key], x)
       IN  TraverseEntries([r.h EXCEPT ![a].v[key] = r.val], a,
                           keys \ {key}, x)

\* processReply under state.data.x = x: the heap after it and its reply
processReply(h, add, x) ==
  LET c == CloneObject(h, Ref(add))
      cloned1 == c.h[c.val.v].v
  IN  IF "data" \in DOMAIN cloned1
      THEN LET w == Append(c.h, Obj("map", "template" :> cloned1["data"]))
               r == traverseAndEvaluate(w, Ref(Len(w)), x)
           IN  [h |-> r.h,
                reply |-> Deref(r.h, r.h[Len(w)].v["template"])]
      ELSE [h |-> c.h, reply |-> Nil]

InitReply ==
  /\ ypc = "idle"
  /\ heap = <<>>
  /\ additional = 0
  /\ template = Map(<<>>)
  /\ replies = <<>>

\* the document is decoded: the event holds its `additional` map
ReplySetup ==
  /\ ypc = "idle"
  /\ \E t \in Additionals :
       /\ template' = t
       /\ heap' = Alloc(<<>>, t).h
       /\ additional' = Alloc(<<>>, t).val.v
  /\ ypc' = "ready"
  /\ UNCHANGED <<replies, exceptReply>>

\* a query or an update arrives: its handler calls processReply
ReplyInvoke ==
  /\ ypc = "ready"
  /\ Len(replies) < MaxReplies
  /\ \E x \in DataValues :
       LET r == processReply(heap, additional, x) IN
       /\ heap' = r.h
       /\ replies' = Append(replies, [x |-> x, reply |-> r.reply])
  /\ UNCHANGED <<ypc, additional, template, exceptReply>>

NextReply ==
  \/ ReplySetup
  \/ ReplyInvoke

\* ------------------------------------------------------------------------
\* Building a fork (ForkTaskBuilder.Build, DoTaskBuilder.Build)
\* ------------------------------------------------------------------------
CallTask == Task("call", "none", <<>>)

DoOf(list) == Task("do", "none", list)

\* the shapes of a branch: one task that is no do, do lists holding a task
\* that is no do, and do lists made of nested do lists only
BranchShapes ==
  {CallTask, DoOf(<<CallTask>>), DoOf(<<CallTask, DoOf(<<CallTask>>)>>),
   DoOf(<<DoOf(<<CallTask>>)>>),
   DoOf(<<DoOf(<<CallTask>>), DoOf(<<CallTask>>)>>)}

AsDoTask(t) == t.kind = "do"

\* utils.GenerateChildWorkflowName("fork", <parent>, <branchKey>)
GenerateChildWorkflowName(key) == <<"workflow", "fork", "parent", key>>

RECURSIVE DoBuild(_, _)
\* the names DoTaskBuilder.Build registers for the do task `name` with the
\* task list `list`: those of its nested do tasks, each built under its own
\* key, and its own name when the list holds a task that is no do
DoBuild(name, list) ==
  LET hasNoDo == \E j \in DOMAIN list : ~AsDoTask(list[j])
  IN  UNION {DoBuild(<<name, j>>, list[j].sub) :
               j \in {j \in DOMAIN list : AsDoTask(list[j])}}
        \cup (IF hasNoDo THEN {name} ELSE {})

\* the names registered for one branch: a single task is wrapped in a do
\* list of its own, a do branch is built as it is
BranchBuild(key, branch) ==
  IF ~AsDoTask(branch)
  THEN DoBuild(GenerateChildWorkflowName(key), <<branch>>)
  ELSE DoBuild(GenerateChildWorkflowName(key), branch.sub)

InitBuild ==
  /\ gpc = "idle"
  /\ branchTasks = <<>>
  /\ forkedTasks = <<>>
  /\ registered = {}
  /\ dispatched = <<>>

\* ForkTaskBuilder.Build: every branch is named, kept and built
ForkBuild ==
  /\ gpc = "idle"
  /\ \E n \in 1..MaxBranches :
       \E bs \in [1..n -> BranchShapes] :
         /\ branchTasks' = bs
         /\ forkedTasks' = [k \in 1..n |-> GenerateChildWorkflowName(k)]
         /\ registered' = UNION {BranchBuild(k, bs[k]) : k \in 1..n}
  /\ gpc' = "built"
  /\ UNCHANGED <<dispatched, exceptBuild>>

\* the loop of exec: the next branch is executed as a child workflow under
\* the name kept for it
ForkDispatch ==
  /\ gpc = "built"
  /\ Len(dispatched) < Len(forkedTasks)
  /\ dispatched' = Append(dispatched, forkedTasks[Len(dispatched) + 1])
  /\ UNCHANGED <<gpc, branchTasks, forkedTasks, registered, exceptBuild>>

NextBuild ==
  \/ ForkBuild
  \/ ForkDispatch

\* ------------------------------------------------------------------------
\* The search attributes of a task (ParseSearchAttributes)
\* ------------------------------------------------------------------------
Entry(type, v) == [type |-> type, value |-> v]

\* the entries drawn: ones that coerce, one that unsets, and ones whose
\* coercion ends in each of the ways a setter can fail
ParseEntries ==
  {Entry("bool", Val("bool", "")), Entry("int", Val("string", "239")),
   Entry("keyword", Val("string", "abc")), Entry("text", Val("nil", "")),
   Entry("bool", Val("string", "abc")), Entry("double", Val("map", "")),
   Entry("keyword", Val("int", "")), Entry("unknown", Val("string", "abc"))}

\* the orders a range over a map of n keys may take
Orders(n) == {o \in [1..n -> 1..n] : \A a, b \in 1..n : o[a] = o[b] => a = b}

RECURSIVE ParseFrom(_, _, _, _, _)
\* the loop over the entries from the k-th of the order on, with the
\* updates collected so far, then the single upsert of what was collected
ParseFrom(es, order, k, signedAttributes, upsertOk) ==
  IF k > Len(order)
  THEN IF signedAttributes = {} THEN [ret |-> NoUpdate, calls |-> <<>>]
       ELSE [ret |-> IF upsertOk THEN NoUpdate ELSE Failure("upserting"),
             calls |-> <<signedAttributes>>]
  ELSE LET r == setAttribute(es[order[k]].type, es[order[k]].value)
       IN  IF r.out = "panic" THEN [ret |-> Panic, calls |-> <<>>]
           ELSE IF r.out = "error"
             THEN [ret |-> Failure("setting"), calls |-> <<>>]
           ELSE ParseFrom(es, order, k + 1,
                          signedAttributes \cup {order[k]}, upsertOk)

ParseSearchAttributes(es, order, upsertOk) ==
  ParseFrom(es, order, 1, {}, upsertOk)

InitParse ==
  /\ mpc = "idle"
  /\ searchAttributes = <<>>
  /\ upserted = <<>>
  /\ mret = NoUpdate

\* the metadata of the task is decoded
ParseDecode ==
  /\ mpc = "idle"
  /\ \E n \in 0..MaxAttributes :
       searchAttributes' \in [1..n -> ParseEntries]
  /\ mpc' = "decoded"
  /\ UNCHANGED <<upserted, mret, exceptParse>>

\* ParseSearchAttributes is called: the map is ranged over in some order,
\* and the engine accepts the upsert or not
ParseCall ==
  /\ mpc = "decoded"
  /\ \E order \in Orders(Len(searchAttributes)), upsertOk \in BOOLEAN :
       LET r == ParseSearchAttributes(searchAttributes, order, upsertOk) IN
       /\ mret' = r.ret
       /\ upserted' = r.calls
  /\ mpc' = "done"
  /\ UNCHANGED <<searchAttributes, exceptParse>>

NextParse ==
  \/ ParseDecode
  \/ ParseCall

\* ------------------------------------------------------------------------
\* The body of a call-http task (CallHTTPTaskBuilder.Build)
\* ------------------------------------------------------------------------
TaskKeys == {"t1", "t2"}

\* state.data as the body may find it
DataBefore ==
  UNION {[ks -> {"old"}] : ks \in SUBSET (TaskKeys \cup {"other"})}

\* how the future of ExecuteActivity resolves
Resolved(kind, res) == [kind |-> kind, res |-> res]

Pending == Resolved("pending", "nil")

Resolutions ==
  {Resolved("ok", r) : r \in {"nil", "r1", "r2"}}
    \cup {Resolved("canceled", "nil")}
    \cup {Resolved("error", e) : e \in {"e1", "e2"}}

\* temporal.IsCanceledError on the error of the future
IsCanceledError(f) == f.kind = "canceled"

BodyReturn(res, err) == [res |-> res, err |-> err]

CallHTTPBody_recordsCancel(s, key, f) ==
  IF f.kind = "error"
    THEN [state |-> s,
          ret |-> BodyReturn("nil", Err("callhttp", FALSE, f.res))]
  ELSE [state |-> AddData(s, key, f.res), ret |-> BodyReturn(f.res, NoErr)]

\* the body once the future has resolved: the state it leaves and what it
\* returns
CallHTTPBody(s, key, f) ==
  IF f.kind # "ok"
  THEN IF IsCanceledError(f)
         THEN [state |-> s, ret |-> BodyReturn("nil", NoErr)]
       ELSE [state |-> s,
             ret |-> BodyReturn("nil", Err("callhttp", FALSE, f.res))]
  ELSE [state |-> AddData(s, key, f.res), ret |-> BodyReturn(f.res, NoErr)]

InitCall ==
  /\ cpc = "idle"
  /\ taskKey = "t1"
  /\ cstate = NewState
  /\ cbefore = <<>>
  /\ activity = Pending
  /\ cret = BodyReturn("nil", NoErr)

\* the body begins: the activity is executed and its future awaited
CallStart ==
  /\ cpc = "idle"
  /\ taskKey' \in TaskKeys
  /\ \E d \in DataBefore :
       /\ cstate' = [NewState EXCEPT !.data = d]
       /\ cbefore' = d
  /\ cpc' = "waiting"
  /\ UNCHANGED <<activity, cret, exceptCall>>

\* the future resolves
ActivityResolves ==
  /\ cpc = "waiting"
  /\ activity' \in Resolutions
  /\ cpc' = "resolved"
  /\ UNCHANGED <<taskKey, cstate, cbefore, cret, exceptCall>>

\* Get returns and the body runs to its return
CallReturn ==
  /\ cpc = "resolved"
  /\ cstate' = CallHTTPBody(cstate, taskKey, activity).state
  /\ cret' = CallHTTPBody(cstate, taskKey, activity).ret
  /\ cpc' = "done"
  /\ UNCHANGED <<taskKey, cbefore, activity, exceptCall>>

NextCall ==
  \/ CallStart
  \/ ActivityResolves
  \/ CallReturn

\* ------------------------------------------------------------------------
\* Runtime expressions in a workflow body (SetTaskBuilder.Build,
\* sideEffectWrapper, processReply, TraverseAndEvaluateObj)
\* ------------------------------------------------------------------------
\* the bodies that evaluate an object to produce data
Sites == {"set", "query", "update"}

\* the strings of an object: a literal, a path, the uuid built-in, and an
\* expression jq fails on
Strings == {"lit", "${ .data.x }", "${ uuid }", "${ bad }"}

\* the identifiers uuid.New() may give
Uuids == {"u1", "u2"}

EvalValue(v) == [ok |-> TRUE, v |-> v]

EvalError(e) == [ok |-> FALSE, v |-> e]

\* model.IsStrictExpr
IsStrictExpr(str) == str # "lit"

evaluateJQExpression(str, uuid) ==
  CASE str = "${ .data.x }" -> EvalValue("x1")
    [] str = "${ uuid }" -> EvalValue(uuid)
    [] OTHER -> EvalError("jq")

\* the wrappers each body hands to TraverseAndEvaluateObj
WrappersOf(site) == IF site = "set" THEN <<"sideEffect">> ELSE <<>>

\* the wrapper used: the one handed in, the pass-through one otherwise
buildEvaluationWrapperFn(evaluationWrapper) ==
  IF Len(evaluationWrapper) > 0 THEN evaluationWrapper[1] ELSE "inline"

\* workflow.SideEffect: on first execution the function runs and its
\* result is recorded; on replay the recorded value is returned and the
\* function does not run
SideEffect(fnResult, history) ==
  IF history # <<>> THEN [val |-> Head(history), ran |-> FALSE]
  ELSE [val |-> IF fnResult.ok THEN fnResult.v ELSE "nil", ran |-> TRUE]

\* sideEffectErr is set by the function, so only when the function runs
sideEffectWrapper(fnResult, history) ==
  LET se == SideEffect(fnResult, history)
      sideEffectErr == se.ran /\ ~fnResult.ok
  IN  [ret |-> IF sideEffectErr THEN EvalError("expression")
               ELSE EvalValue(se.val),
       val |-> se.val, ran |-> se.ran]

RECURSIVE EvaluateFrom(_, _, _, _, _, _, _, _)
\* the traversal from the k-th string on: `history` holds the recorded
\* values not yet replayed, `written` those recorded up to here
EvaluateFrom(obj, k, wrapper, uuid, history, written, acc, log) ==
  IF k > Len(obj)
    THEN [ret |-> EvalValue(acc), recorded |-> written, evals |-> log]
  ELSE IF ~IsStrictExpr(obj[k])
    THEN EvaluateFrom(obj, k + 1, wrapper, uuid, history, written,
                      Append(acc, obj[k]), log)
  ELSE LET fn == evaluateJQExpression(obj[k], uuid)
           w == IF wrapper = "sideEffect" THEN sideEffectWrapper(fn, history)
                ELSE [ret |-> fn, val |-> "nil", ran |-> FALSE]
           log2 == Append(log, [expr |-> obj[k],
                                sideEffect |-> wrapper = "sideEffect"])
           history2 == IF wrapper = "sideEffect" /\ ~w.ran
                       THEN Tail(history) ELSE history
           written2 == IF wrapper = "sideEffect"
                       THEN Append(written, w.val) ELSE written
       IN  IF ~w.ret.ok
           THEN [ret |-> w.ret, recorded |-> written2, evals |-> log2]
           ELSE EvaluateFrom(obj, k + 1, wrapper, uuid, history2, written2,
                             Append(acc, w.ret.v), log2)

TraverseAndEvaluateObj(obj, evaluationWrapper, uuid, history) ==
  EvaluateFrom(obj, 1, buildEvaluationWrapperFn(evaluationWrapper), uuid,
               history, <<>>, <<>>, <<>>)

InitEval ==
  /\ epc = "idle"
  /\ esite = "set"
  /\ setObject = <<>>
  /\ recorded = <<>>
  /\ evals = <<>>
  /\ eret = EvalValue(<<>>)
  /\ rret = EvalValue(<<>>)

\* a body evaluates its object for the first time
EvalFirst ==
  /\ epc = "idle"
  /\ \E site \in Sites, n \in 1..MaxStrings, uuid \in Uuids :
       \E obj \in [1..n -> Strings] :
         LET r == TraverseAndEvaluateObj(obj, WrappersOf(site), uuid, <<>>) IN
         /\ esite' = site
         /\ setObject' = obj
         /\ recorded' = r.recorded
         /\ evals' = r.evals
         /\ eret' = r.ret
  /\ epc' = "ran"
  /\ UNCHANGED <<rret, exceptEval>>

\* the workflow is replayed from its history: the body evaluates the
\* object again
EvalReplay ==
  /\ epc = "ran"
  /\ \E uuid \in Uuids :
       rret' = TraverseAndEvaluateObj(setObject, WrappersOf(esite), uuid,
                                      recorded).ret
  /\ epc' = "replayed"
  /\ UNCHANGED <<esite, setObject, recorded, evals, eret, exceptEval>>

NextEval ==
  \/ EvalFirst
  \/ EvalReplay

\* ------------------------------------------------------------------------
\* Specifications: one component runs, the others stay as constructed
\* ------------------------------------------------------------------------
Init ==
  /\ InitDo
  /\ InitFork
  /\ InitListen
  /\ InitSwitch
  /\ InitSchedule
  /\ InitValidate
  /\ InitSearch
  /\ InitHttp
  /\ InitClone
  /\ InitReply
  /\ InitBuild
  /\ InitParse
  /\ InitCall
  /\ InitEval

InitFlow == Init /\ family = "flow"

InitExport == Init /\ family = "export"

SpecDo == InitFlow /\ [][NextDo]_vars

SpecDoExport == InitExport /\ [][NextDo]_vars

SpecFork == InitFlow /\ [][NextFork]_vars

\* the engine runs every coroutine that can run, and every child workflow
\* ends
SpecForkFair == InitFlow /\ [][NextFork]_vars /\ WF_vars(NextFork)

\* the engine runs every reply coroutine that can run and exec when its
\* Await is satisfied; it cancels nothing of its own accord
SpecForkEngine ==
  InitFlow /\ [][NextFork]_vars
    /\ WF_vars(CoroutineCancelled \/ CoroutineError \/ CoroutineSuccess
                 \/ ForkReturnError \/ ForkReturnCompeting \/ ForkReturnAll)

SpecListen == InitFlow /\ [][NextListen]_vars

SpecSwitch == InitFlow /\ [][NextSwitch]_vars

SpecSchedule == InitFlow /\ [][NextSchedule]_vars

SpecValidate == InitFlow /\ [][NextValidate]_vars

SpecSearch == InitFlow /\ [][NextSearch]_vars

SpecHttp == InitFlow /\ [][NextHttp]_vars

SpecClone == InitFlow /\ [][NextClone]_vars

SpecReply == InitFlow /\ [][NextReply]_vars

SpecBuild == InitFlow /\ [][NextBuild]_vars

SpecParse == InitFlow /\ [][NextParse]_vars

SpecCall == InitFlow /\ [][NextCall]_vars

SpecEval == InitFlow /\ [][NextEval]_vars

\* the engine's timer fires, and a satisfied await returns
SpecListenFair ==
  InitFlow /\ [][NextListen]_vars /\ WF_vars(ListenTimeout \/ ListenAwaitOk)

\* ------------------------------------------------------------------------
\* Properties of the do executor
\* ------------------------------------------------------------------------
Idx == DOMAIN dlog

SameTask(a, b) == a.l = b.l /\ a.i = b.i

IsJump(p) == dlog[p].ev = "jump"

\* task j of the list of jump p follows the jumping task and is not the
\* one the jump leads to
BeforeTarget(p, j) ==
  /\ j > dlog[p].i
  /\ j <= dlog[p].n
  /\ (j < dlog[p].t \/ dlog[p].t <= dlog[p].i)

\* C1: within one do list, if the bodies at positions i < j are both
\* invoked, the body at i has returned before the body at j is invoked.
C1_DeclarationOrder ==
  \A p \in Idx, q \in Idx :
    (/\ dlog[p].ev = "invoke" /\ dlog[q].ev = "invoke"
     /\ dlog[p].l = dlog[q].l /\ dlog[p].i < dlog[q].i)
    => \E r \in Idx :
         /\ p < r /\ r < q
         /\ dlog[r].ev \in {"return", "raise"}
         /\ SameTask(dlog[r], dlog[p])

C1_Witness ==
  \E p \in Idx, q \in Idx :
    /\ dlog[p].ev = "invoke" /\ dlog[q].ev = "invoke"
    /\ dlog[p].l = dlog[q].l /\ dlog[p].i < dlog[q].i

\* C2: when a task body returns an error the do executor returns that
\* error and invokes no later body.
C2_ErrorAborts ==
  \A p \in Idx :
    dlog[p].ev = "raise"
    => /\ dret.st = "err"
       /\ dret.err = dlog[p].e
       /\ \A q \in Idx : q > p => dlog[q].ev # "invoke"

C2_Witness ==
  /\ dret.st = "err"
  /\ \E p \in Idx :
       dlog[p].ev = "raise" /\ dlog[p].l = <<>> /\ dlog[p].i < dlog[p].n

\* C3: after a task whose then names task key K, the following tasks with
\* another key are skipped (no if-gate, no body) until K is reached; K is
\* then processed normally and the pending target is cleared, so that a
\* task is skipped only while a jump before it is still unresolved.
C3_JumpSkips ==
  /\ \A p \in Idx, q \in Idx :
       (/\ IsJump(p) /\ p < q /\ dlog[q].l = dlog[p].l
        /\ BeforeTarget(p, dlog[q].i))
       => dlog[q].ev = "skip"
  /\ \A q \in Idx :
       dlog[q].ev = "skip"
       => \E p \in Idx :
            /\ IsJump(p) /\ p < q /\ dlog[q].l = dlog[p].l
            /\ BeforeTarget(p, dlog[q].i)
  /\ \A p \in Idx, q \in Idx :
       (/\ IsJump(p) /\ p < q /\ dlog[q].l = dlog[p].l
        /\ dlog[p].t > dlog[p].i /\ dlog[p].t <= dlog[p].n
        /\ dlog[q].i >= dlog[p].t)
       => \E r \in Idx :
            /\ p < r /\ r <= q
            /\ dlog[r].ev = "gate" /\ dlog[r].l = dlog[p].l
            /\ dlog[r].i = dlog[p].t

C3_Witness ==
  \E p \in Idx, q \in Idx, r \in Idx :
    /\ IsJump(p) /\ dlog[p].l = <<>> /\ dlog[p].i = 1 /\ dlog[p].t = 3
    /\ dlog[q].ev = "skip" /\ dlog[q].l = <<>> /\ dlog[q].i = 2
    /\ dlog[r].ev = "invoke" /\ dlog[r].l = <<>> /\ dlog[r].i = 3

\* a jump whose target no later task of the list carries
Unresolvable(p) ==
  IsJump(p) /\ (dlog[p].t <= dlog[p].i \/ dlog[p].t > dlog[p].n)

\* C4: a then-target still pending when the loop ends makes the do fail
\* with an error naming the target instead of returning state.output.
C4_MissingTargetFails ==
  \A p \in Idx :
    (Unresolvable(p) /\ dret.st \in {"ok", "err"})
    => dret.st = "err" /\ dret.err = NotFound(dlog[p].t)

C4_Witness ==
  /\ dret.st = "err" /\ dret.err.type = "notfound"
  /\ \E p \in Idx : Unresolvable(p) /\ dlog[p].i < dlog[p].n

\* C5: then-jumps only move forward: within one list bodies are invoked in
\* strictly increasing position, so no body is invoked twice and a then
\* naming the current or an earlier task never runs an earlier task again.
C5_ForwardOnly ==
  \A p \in Idx, q \in Idx :
    (/\ p < q /\ dlog[p].ev = "invoke" /\ dlog[q].ev = "invoke"
     /\ dlog[p].l = dlog[q].l)
    => dlog[p].i < dlog[q].i

C5_Witness ==
  /\ dret.st = "err"
  /\ \E p \in Idx : IsJump(p) /\ dlog[p].t <= dlog[p].i /\ dlog[p].i > 1

Returned == fpc = "done"

\* the fork returned because its Await failed
AwaitFailed == fret.st = "err" /\ fret.err.type = "await"

\* C7, as stated: a competing fork that returns after its Await was
\* satisfied has one winner, and by then has invoked the cancel handle of
\* every other branch and not the winner's.
C7_AsStated ==
  (isCompeting /\ Returned /\ ~AwaitFailed) =>
    /\ winningCtx # NilCtx
    /\ cancelled = Branches \ {Winner}

\* C8: a non-competing fork returns without error only when the child
\* workflow of every branch has completed; and while no branch has failed or
\* been cancelled, it has not returned with a branch still running.
C8_AllComplete ==
  /\ (~isCompeting /\ Returned /\ fret.st = "ok") =>
       \A b \in Branches : futures[b] = "ok"
  /\ (~isCompeting /\ Returned /\ ~AwaitFailed
        /\ \A b \in Branches : futures[b] \in {"ok", "running"}) =>
       \A b \in Branches : futures[b] = "ok"

C8_Witness ==
  /\ ~isCompeting
  /\ Returned
  /\ fret.st = "ok"
  /\ Cardinality(Branches) >= 2
  /\ \A b \in Branches : futures[b] = "ok" /\ coroutine[b] = "done"

\* a reply coroutine has recorded a branch error
ErrorSeen == \E b \in Branches : futures[b] = "err" /\ coroutine[b] = "done"

C9_Safety ==
  ~isCompeting =>
    /\ cancelled = {}
    /\ (Returned /\ ErrorSeen) => fret.st = "err"

\* C9: a non-competing fork never invokes a cancel handle; once a branch has
\* failed with an error other than cancellation the fork does not return
\* without error, and it does return, with an error.
C9_ErrorNoCancel ==
  /\ []C9_Safety
  /\ (~isCompeting /\ \E b \in Branches : futures[b] = "err")
       ~> (Returned /\ fret.st = "err")

C9_Witness ==
  /\ ~isCompeting
  /\ Returned
  /\ fret.st = "err"
  /\ fret.err.type = "fork"
  /\ \E b \in Branches : futures[b] = "running"
  /\ cancelled = {}

\* ------------------------------------------------------------------------
\* Properties of listen
\* ------------------------------------------------------------------------
EveryEntryReceived == \A k \in DOMAIN events : received[k] >= 1

ListenOk == lpc = "done" /\ lret.st = "ok"

\* C10, as stated: a listen task in `all` or `one` mode has returned
\* successfully only if every declared entry has received an event.
C10_AsStated == (IsAll(mode) /\ ListenOk) => EveryEntryReceived

\* C10, amended: a listen task in `all` or `one` mode that declares no query
\* entry has returned successfully only if every declared entry has received
\* an event.
C10_AllWithoutQuery ==
  (IsAll(mode) /\ AwaitFlag(events) /\ ListenOk) => EveryEntryReceived

C10_Witness ==
  /\ mode = "all"
  /\ Len(events) = 2
  /\ events[1] = "signal"
  /\ events[2] = "update"
  /\ ListenOk
  /\ received[1] = 1
  /\ received[2] >= 1

\* an entry that completes the task has received an event
SomeEntryReceived ==
  \E k \in DOMAIN events : events[k] \in {"signal", "update"} /\ received[k] >= 1

\* C11, as stated: once a signal or update entry of a listen task in `any`
\* mode has received an event while the task waits, the condition the task
\* waits for holds, so that the task returns successfully and the timeout
\* does not apply.
C11_AsStated ==
  (mode = "any" /\ lpc = "await" /\ SomeEntryReceived) => ListenPredicate

\* C12: a listen task that stops waiting while its condition does not hold
\* fails, with the timeout error unless the wait itself failed; and a listen
\* task that waits does not wait forever.
C12_TimeoutBounds ==
  /\ [][(lpc = "await" /\ lpc' = "done" /\ ~ListenPredicate)
          => (lret'.st = "err" /\ lret'.err.type \in {"timeout", "await"})]_vars
  /\ (lpc = "await") ~> (lpc = "done")

C12_Witness ==
  /\ mode = "all"
  /\ Len(events) = 2
  /\ received[1] >= 1
  /\ received[2] = 0
  /\ lpc = "done"
  /\ lret.st = "err"
  /\ lret.err.type = "timeout"

\* ------------------------------------------------------------------------
\* Properties of switch
\* ------------------------------------------------------------------------
\* the entries that have a `when` which evaluates to true
WhenTrue ==
  {k \in DOMAIN cases :
     /\ cases[k] # NoWhen
     /\ CheckIfStatement(cases[k]).err = NoErr
     /\ CheckIfStatement(cases[k]).run}

\* C13, as stated: the entry a switch selects is the first entry whose
\* `when` evaluates to true, when there is one; the `when` of no entry after
\* the selected one has been evaluated; and the switch has executed at most
\* one child workflow.
C13_AsStated ==
  /\ (selected # 0 /\ WhenTrue # {})
       => (selected \in WhenTrue /\ \A k \in WhenTrue : selected <= k)
  /\ selected # 0 => \A k \in evaluated : k <= selected
  /\ children <= 1

OmitWhen == {k \in DOMAIN cases : cases[k] = NoWhen}

BuildFailed == spc = "done" /\ sret.st = "err" /\ sret.err.type = "multidefault"

\* C14: building a switch fails exactly when more than one of its entries
\* omits `when`.
C14_OneDefault == spc # "idle" => (BuildFailed <=> Cardinality(OmitWhen) > 1)

C14_Witness ==
  /\ BuildFailed
  /\ Len(cases) = 3
  /\ OmitWhen = {1, 3}

\* ------------------------------------------------------------------------
\* Properties of schedule reconciliation
\* ------------------------------------------------------------------------
\* the schedules with the computed identifier among eng
Computed(eng) == {s \in eng : s.id = scheduleID}

\* run q came right after run p, with no other run at any time
InARow(p, q) ==
  /\ p # q
  /\ Done(p) /\ Done(q)
  /\ recon[q].after = {p}
  /\ recon[p].after = {} /\ recon[p].during = {}
  /\ recon[q].during = {}
  /\ \A r \in Reconcilers \ {p, q} : recon[r].pc = "idle"

\* the document declares a schedule UpsertSchedule accepts
ValidScheduled ==
  /\ sdoc.schedule # "nil"
  /\ sdoc.scheduleId # "nonstring"
  /\ DeclarationError = NoErr

\* C15: when UpsertSchedule runs twice in a row for the same valid scheduled
\* document, with no other run and no failing call to the engine, both runs
\* return without error, each leaves exactly one schedule with the computed
\* identifier, the one the document declares, and the second leaves the
\* engine as the first left it.
C15_Idempotent ==
  \A p, q \in Reconcilers :
    (InARow(p, q) /\ ValidScheduled
       /\ ~recon[p].rpcFailed /\ ~recon[q].rpcFailed)
    => /\ recon[p].ret = NoErr
       /\ recon[q].ret = NoErr
       /\ Computed(recon[p].left) = {ScheduleOptions}
       /\ Computed(recon[q].left) = {ScheduleOptions}
       /\ recon[q].left = recon[p].left
       /\ engine = recon[q].left

C15_Witness ==
  /\ InARow(1, 2)
  /\ ValidScheduled
  /\ ~recon[1].rpcFailed /\ ~recon[2].rpcFailed
  /\ recon[2].ret = NoErr
  /\ Cardinality(engine) = 2
  /\ Computed(engine) = {ScheduleOptions}

\* ------------------------------------------------------------------------
\* Further properties of the do executor
\* ------------------------------------------------------------------------
\* C16, as stated: what a task body writes to the state it was handed (the
\* key "x" of state.data here) never shows in the executor's state.
C16_AsStated == "x" \notin DOMAIN state.data

\* C20: the error a do produces for a `then` jump to an unknown target
\* task key is a non-retryable error.
C20_AsStated ==
  (dret.st = "err" /\ dret.err.type = "notfound") => dret.err.nonRetryable

\* the place of a logged step among the steps of one task: if-gate, input
\* validation, metadata, body invocation, the body's return, export, then
StepRank(ev) ==
  CASE ev = "gate" -> 1
    [] ev = "validate" -> 2
    [] ev = "meta" -> 3
    [] ev = "invoke" -> 4
    [] ev \in {"return", "raise"} -> 5
    [] ev = "export" -> 6
    [] ev \in {"then", "jump", "exit"} -> 7
    [] OTHER -> 0

IsStep(p) == StepRank(dlog[p].ev) > 0

\* C22: for every task run in a do list the steps come in the order
\* if-gate, input validation, metadata, body invocation, output export,
\* then; an error at any step ends the do with that error before any later
\* step of that task.
C22_StepOrder ==
  /\ \A p \in Idx, q \in Idx :
       (IsStep(p) /\ IsStep(q) /\ p < q /\ SameTask(dlog[p], dlog[q]))
         => StepRank(dlog[p].ev) < StepRank(dlog[q].ev)
  /\ \A q \in Idx :
       (IsStep(q) /\ StepRank(dlog[q].ev) > 1)
         => \A r \in 1..(StepRank(dlog[q].ev) - 1) :
              \E p \in Idx :
                /\ p < q
                /\ SameTask(dlog[p], dlog[q])
                /\ StepRank(dlog[p].ev) = r
                /\ dlog[p].e = NoErr
  /\ \A p \in Idx :
       (IsStep(p) /\ dlog[p].e # NoErr)
         => /\ dret.st = "err"
            /\ dret.err = dlog[p].e
            /\ \A q \in Idx : (q > p /\ IsStep(q)) => dlog[q].ev = "raise"

\* one task went through all its steps and a later one failed at its
\* metadata
C22_Witness ==
  /\ dret.st = "err"
  /\ dret.err.type = "metadata"
  /\ \E p \in Idx : dlog[p].ev \in {"then", "jump", "exit"}

\* the if-gate logged at p resolved to false: no input validation of the
\* same task follows it
GateFalseAt(p) ==
  /\ dlog[p].ev = "gate"
  /\ dlog[p].e = NoErr
  /\ (p = Len(dlog)
        \/ ~(dlog[p + 1].ev = "validate" /\ SameTask(dlog[p + 1], dlog[p])))

\* the step of the executor is the skip of a task whose if-gate is false
GateFalseStep ==
  /\ Len(dlog') = Len(dlog) + 1
  /\ dlog'[Len(dlog')].ev = "gate"
  /\ dlog'[Len(dlog')].e = NoErr

\* C23: a task whose if-gate evaluates to false is skipped entirely: no
\* input validation, no metadata, no body, nothing added to state.output,
\* its then ignored, and the next task in declaration order is considered.
C23_SkippedEntirely ==
  /\ [](\A p \in Idx :
          GateFalseAt(p)
            => /\ \A q \in Idx : SameTask(dlog[q], dlog[p]) => q = p
               /\ p < Len(dlog)
                    => /\ dlog[p + 1].l = dlog[p].l
                       /\ dlog[p + 1].i = dlog[p].i + 1
                       /\ dlog[p + 1].ev \in {"gate", "end"})
  /\ [][GateFalseStep
          => /\ state'.output = state.output
             /\ lastPost' = lastPost
             /\ dret' = dret
             /\ Len(stack') = Len(stack)
             /\ stack'[Len(stack')].i = Top.i + 1
             /\ stack'[Len(stack')].next = 0]_vars

\* a task was skipped on its if-gate and the body of the next one invoked
C23_Witness ==
  \E p \in Idx, q \in Idx :
    /\ GateFalseAt(p)
    /\ q > p
    /\ dlog[q].ev = "invoke"
    /\ dlog[q].l = dlog[p].l
    /\ dlog[q].i = dlog[p].i + 1

\* C24: after a task whose then is a terminal directive (end or exit)
\* completes successfully, no later task of the list is considered and the
\* do returns state.output without error.
C24_TerminalThen ==
  \A p \in Idx :
    dlog[p].ev = "exit"
    => /\ \A q \in Idx :
            (q > p /\ dlog[q].l = dlog[p].l)
              => (q = p + 1 /\ dlog[q].ev = "end" /\ dlog[q].e = NoErr)
       /\ (p + 1) \in Idx
            => /\ dlog[p + 1].ev = "end"
               /\ dlog[p + 1].l = dlog[p].l
               /\ (p + 2) \in Idx => dlog[p + 2].ev = "return"
       /\ (dlog[p].l = <<>> /\ (p + 1) \in Idx)
            => /\ dret.st = "ok"
               /\ dret.err = NoErr
               /\ dret.out = state.output

\* a task that is not the last of the root list ended the workflow
C24_Witness ==
  \E p \in Idx :
    /\ dlog[p].ev = "exit"
    /\ dlog[p].l = <<>>
    /\ dlog[p].i < dlog[p].n
    /\ dret.st = "ok"

\* ------------------------------------------------------------------------
\* Properties of document validation
\* ------------------------------------------------------------------------
RECURSIVE HasUnsupported(_)
\* the task is of an unsupported kind, or holds one at some depth, in a
\* nested do or in a fork branch
HasUnsupported(task) ==
  \/ task.kind \in UnsupportedKinds
  \/ \E k \in DOMAIN task.sub : HasUnsupported(task.sub[k])

DocHasUnsupported == \E k \in DOMAIN vdoc : HasUnsupported(vdoc[k])

DocHasAttributeProblem ==
  \E k \in DOMAIN vdoc : vdoc[k].meta \in {"invalid", "undecodable"}

\* C17: Validate returns ErrUnsupportedTask whenever the document holds a
\* task of an unsupported kind at any depth, in nested do lists and in fork
\* branches alike; for a document of supported kinds only and without a
\* search-attribute problem it returns an empty list and a nil error.
C17_AsStated ==
  vpc = "done" =>
    /\ DocHasUnsupported => vret.err = "unsupported"
    /\ (~DocHasUnsupported /\ ~DocHasAttributeProblem) => vret = NoValidation

\* ------------------------------------------------------------------------
\* Properties of search-attribute coercion
\* ------------------------------------------------------------------------
\* the dynamic types each declared type accepts
Accepts(type) ==
  CASE type = "bool" -> {"bool", "string"}
    [] type = "datetime" -> {"time", "string"}
    [] type \in {"double", "int"} -> NumericKinds \cup {"string"}
    [] type \in {"keyword", "text"} -> {"string"}
    [] type = "keywordlist" -> {"strings"}
    [] OTHER -> {}

\* C18: for each of the seven declared types and any non-null value whose
\* Go type is outside the set the type accepts, coercion returns
\* ErrInvalidType as an error value; it neither panics nor produces an
\* update.
C18_AsStated ==
  (/\ apc = "done"
   /\ attr.type # "unknown"
   /\ attr.value.kind # "nil"
   /\ attr.value.kind \notin Accepts(attr.type))
    => aret = Failure("ErrInvalidType")

\* ------------------------------------------------------------------------
\* Properties of the call-http activity
\* ------------------------------------------------------------------------
\* the activity got a response with this status
Responded == hpc = "done" /\ ~call.netErr

\* C19: a 3xx response and a 4xx response fail with a non-retryable
\* application error; a 5xx response fails with an error that is retryable
\* under the default policy; any other status returns the shaped output
\* without error.
C19_AsStated ==
  Responded =>
    LET status == Do(call, 1)
    IN  /\ (status >= 300 /\ status < 500)
             => (hret.err # "none" /\ hret.nonRetryable)
        /\ (status >= 500 /\ status < 600)
             => (hret.err # "none" /\ ~hret.nonRetryable)
        /\ (status < 300)
             => (hret.err = "none"
                   /\ hret.out = parseOutput(call.output, call))

C25_AsStated ==
  [][(fpc = "await" /\ replyErr # NoErr) => replyErr' = replyErr]_vars

\* the reply coroutine of a branch saw its future end cancelled
SawCancellation(b) == futures[b] = "cancelled" /\ coroutine[b] = "done"

\* C26: a branch whose child future resolves with a cancellation error
\* never sets the fork's error; a fork whose only branch failures are
\* cancellations does not return an error because of them.
C26_CancellationSwallowed ==
  /\ replyErr # NoErr
       => /\ replyErr.detail \in Branches
          /\ futures[replyErr.detail] = "err"
  /\ (\A b \in Branches : futures[b] # "err")
       => /\ replyErr = NoErr
          /\ fret.st = "err" => fret.err.type = "await"

\* a fork returned without error although a branch ended cancelled and
\* its reply coroutine had seen it
C26_Witness ==
  /\ fpc = "done"
  /\ fret.st = "ok"
  /\ \E b \in Branches : SawCancellation(b)

\* C27, as stated: a non-competing fork eventually returns once the child
\* future of every branch has resolved, whatever mix of success, error and
\* cancellation they resolve with.
C27_AsStated ==
  (/\ fpc = "await"
   /\ ~isCompeting
   /\ \A b \in Branches : futures[b] # "running") ~> (fpc = "done")

\* ------------------------------------------------------------------------
\* Further properties of listen
\* ------------------------------------------------------------------------
HasQuery == \E k \in DOMAIN events : events[k] = "query"

\* C28: a listen task that has a query entry registers the query handler
\* and returns immediately, without waiting for any event or for the
\* timeout.
C28_QueryReturns ==
  HasQuery
    => /\ lpc = "done"
       /\ lret.st = "ok" \/ (lret.st = "err" /\ lret.err.type = "register")

\* a task with a query and a signal entry has returned; its query handler
\* answered a query afterwards and no signal ever came
C28_Witness ==
  /\ events = <<"query", "signal">>
  /\ ListenOk
  /\ received = <<1, 0>>

\* C29, as stated: after the listen task has returned, the arrival of a
\* further signal or update for one of its entries does not modify
\* state.data.
C29_AsStated == [][lpc = "done" => ldata' = ldata]_vars

\* ------------------------------------------------------------------------
\* Properties of the listen reply
\* ------------------------------------------------------------------------
RECURSIVE Interpolated(_, _)
\* a declared template with every expression replaced by its value under
\* state.data.x = x
Interpolated(t, x) ==
  IF t.k \in {"map", "list"}
    THEN Obj(t.k, [key \in DOMAIN t.v |-> Interpolated(t.v[key], x)])
  ELSE IF t = Expr THEN Str(x)
  ELSE t

\* C30: a listen reply is built from a fresh deep clone of the event's
\* additional.data on every invocation: the stored template is never
\* modified, and every invocation returns the template interpolated
\* against the state current at that invocation.
C30_FreshTemplate ==
  ypc = "ready" =>
    /\ Deref(heap, Ref(additional)) = template
    /\ \A j \in DOMAIN replies :
         replies[j].reply =
           IF "data" \in DOMAIN template.v
           THEN Interpolated(template.v["data"], replies[j].x)
           ELSE Nil

\* two invocations under different states of a template that holds an
\* expression inside a map
C30_Witness ==
  /\ Len(replies) = 2
  /\ replies[1].x # replies[2].x
  /\ replies[1].reply # replies[2].reply
  /\ replies[2].reply.k = "map"

\* ------------------------------------------------------------------------
\* Further properties of the do executor: pending targets
\* ------------------------------------------------------------------------
\* the task whose if-gate is logged at p is the pending then target: the
\* step before it is the jump that names it or the skip of the task
\* before it
TargetedAt(p) ==
  /\ p > 1
  /\ dlog[p].ev = "gate"
  /\ dlog[p - 1].l = dlog[p].l
  /\ dlog[p - 1].ev \in {"jump", "skip"}
  /\ dlog[p - 1].t = dlog[p].i

\* C31: when the task named by a pending then target is reached and its
\* own if-gate is false, the pending target is cleared, the task is
\* skipped, the next task in declaration order is considered, and the do
\* reports no missing-target error.
C31_TargetGateFalse ==
  /\ [](\A p \in Idx :
          (TargetedAt(p) /\ GateFalseAt(p))
            => /\ \A q \in Idx : SameTask(dlog[q], dlog[p]) => q = p
               /\ p < Len(dlog)
                    => /\ dlog[p + 1].l = dlog[p].l
                       /\ \/ /\ dlog[p + 1].ev = "gate"
                             /\ dlog[p + 1].i = dlog[p].i + 1
                          \/ /\ dlog[p + 1].ev = "end"
                             /\ dlog[p + 1].e = NoErr
                             /\ dlog[p].i = dlog[p].n)
  /\ [][(GateFalseStep /\ Top.next # 0)
          => /\ Top.next = Top.i
             /\ dret' = dret
             /\ Len(stack') = Len(stack)
             /\ stack'[Len(stack')].i = Top.i + 1
             /\ stack'[Len(stack')].next = 0]_vars

\* the target of a jump was skipped on its if-gate, the body of the task
\* after it was invoked, and the workflow ended without error
C31_Witness ==
  /\ dret.st = "ok"
  /\ \E p \in Idx, q \in Idx :
       /\ TargetedAt(p)
       /\ GateFalseAt(p)
       /\ q > p
       /\ dlog[q].ev = "invoke"
       /\ dlog[q].l = dlog[p].l
       /\ dlog[q].i = dlog[p].i + 1

\* ------------------------------------------------------------------------
\* Further properties of switch
\* ------------------------------------------------------------------------
\* C32, as stated: the entry without `when` is selected only if no entry
\* with a `when` evaluates to true, wherever it stands in the list.
C32_AsStated ==
  (selected # 0 /\ cases[selected] = NoWhen) => WhenTrue = {}

\* ------------------------------------------------------------------------
\* Properties of building a fork
\* ------------------------------------------------------------------------
\* C33, as stated: every child workflow name a fork dispatches at run time
\* was registered with the worker when the fork was built, whatever the
\* shape of the branch.
C33_AsStated ==
  \A k \in DOMAIN dispatched : dispatched[k] \in registered

\* ------------------------------------------------------------------------
\* Further properties of schedule reconciliation
\* ------------------------------------------------------------------------
\* C34: when the document declares no schedule, a run of UpsertSchedule
\* that returns without error leaves no schedule with the computed
\* identifier; no step of any run creates a schedule, and no step removes
\* a schedule with a different ID.
C34_NoSchedule ==
  /\ [](\A p \in Reconcilers :
          (sdoc.schedule = "nil" /\ Done(p) /\ recon[p].ret = NoErr)
            => Computed(recon[p].left) = {})
  /\ [][(upc = "run" /\ sdoc.schedule = "nil")
          => /\ engine' \subseteq engine
             /\ \A s \in engine \ engine' : s.id = scheduleID]_vars

\* a run for a document without a schedule met the schedule with the
\* computed identifier among others, and returned once it was gone
C34_Witness ==
  /\ sdoc.schedule = "nil"
  /\ Done(1)
  /\ recon[1].ret = NoErr
  /\ recon[1].seen
  /\ Computed(engine) = {}
  /\ Cardinality(engine) = 2

\* the run returned one of the errors of an invalid schedule declaration
DeclarationRejected(p) ==
  /\ Done(p)
  /\ sdoc.schedule # "nil"
  /\ DeclarationError # NoErr
  /\ recon[p].ret = DeclarationError

\* C35, as stated: when UpsertSchedule returns an error because the
\* schedule declaration is invalid, the schedules on the engine are those
\* it listed when it began (taken for a run no other run overlaps).
C35_AsStated ==
  \A p \in Reconcilers :
    (DeclarationRejected(p) /\ recon[p].during = {})
      => recon[p].left = recon[p].before

\* runs p and q are the only runs, both have finished, and no call of
\* theirs to the engine failed in transit
BothFinished(p, q) ==
  /\ p # q
  /\ Done(p) /\ Done(q)
  /\ ~recon[p].rpcFailed /\ ~recon[q].rpcFailed
  /\ \A r \in Reconcilers \ {p, q} : recon[r].pc = "idle"

FailingEntries ==
  {k \in DOMAIN searchAttributes :
     setAttribute(searchAttributes[k].type, searchAttributes[k].value).out
       \in {"error", "panic"}}

\* C37, as stated: if the coercion of any entry fails,
\* ParseSearchAttributes returns an error and upserts none of the task's
\* attributes; otherwise all of them are upserted in a single call.
C37_AsStated ==
  mpc = "done" =>
    IF FailingEntries # {}
    THEN mret.out = "error" /\ upserted = <<>>
    ELSE searchAttributes # <<>>
           => upserted = <<DOMAIN searchAttributes>>

\* ------------------------------------------------------------------------
\* Properties of the body of a call-http task
\* ------------------------------------------------------------------------
\* C38: when the activity future of a call-http task resolves with a
\* cancellation error the body returns a nil result and a nil error and
\* does not write state.data[<taskKey>]; on success it sets
\* state.data[<taskKey>] to the result and returns that result.
C38_CancelIsNoOp ==
  cpc = "done" =>
    /\ activity.kind = "canceled"
         => /\ cret = BodyReturn("nil", NoErr)
            /\ cstate.data = cbefore
    /\ activity.kind = "ok"
         => /\ cret = BodyReturn(activity.res, NoErr)
            /\ taskKey \in DOMAIN cstate.data
            /\ cstate.data[taskKey] = activity.res
            /\ \A k \in DOMAIN cstate.data \ {taskKey} :
                 k \in DOMAIN cbefore /\ cstate.data[k] = cbefore[k]

\* the activity of a task whose key already held data was canceled
C38_Witness ==
  /\ cpc = "done"
  /\ activity.kind = "canceled"
  /\ taskKey \in DOMAIN cstate.data
  /\ cstate.data[taskKey] = "old"

\* ------------------------------------------------------------------------
\* Properties of runtime expressions in a workflow body
\* ------------------------------------------------------------------------
\* C39, as stated: every runtime-expression evaluation a workflow body
\* performs to produce data (the set block of a set task, the reply
\* template of a query or update handler) runs inside the engine's
\* side-effect primitive.
C39_AsStated == \A k \in DOMAIN evals : evals[k].sideEffect

\* C40, as stated: the set task's side-effect wrapper yields on replay the
\* outcome of the first execution: an error when the evaluation failed,
\* the same value when it succeeded.
C40_AsStated ==
  (epc = "replayed" /\ esite = "set")
    => IF eret.ok THEN rret = eret ELSE ~rret.ok

====
